---- MODULE Spec2Model ----
(***************************************************************************)
(* The phase workflow engine of the artist simulation: the phase state     *)
(* machine (workflow/models/drawing_phase.py), the workflow state          *)
(* (workflow/models/workflow_state.py), the checkpoint store               *)
(* (workflow/core/checkpoint_manager.py), the decision log                 *)
(* (workflow/core/decision_logger.py) and the executor that ties them      *)
(* together (workflow/core/workflow_executor.py), over the canvas and      *)
(* stroke values of motor/core.                                            *)
(*                                                                         *)
(* Python objects that are shared by reference are modelled by addresses   *)
(* into a heap: the metadata dict of a Stroke lives in stroke_meta, the    *)
(* metadata dicts of a Canvas and of its Layers live in dict_heap.  A      *)
(* serialised value (to_dict) that stores such a dict stores its address.  *)
(***************************************************************************)
EXTENDS Integers, Sequences, FiniteSets, TLC

\* ------------------------------------------------------------------ bounds
MaxStrokes == 2
MaxTransitions == 4
MaxCreated == 4
MaxClock == 2
MaxCalls == 4
MaxMetricsCalls == 3
MaxEvals == 1
MaxLayerIds == 2
max_checkpoints == 2

None == "None"

\* ------------------------------------------------- drawing_phase.py (pure)
SKETCH == "sketch"
REFINEMENT == "refinement"
STYLIZATION == "stylization"
RENDERING == "rendering"
COMPLETE == "complete"

DrawingPhase == {SKETCH, REFINEMENT, STYLIZATION, RENDERING, COMPLETE}

phase_order == <<SKETCH, REFINEMENT, STYLIZATION, RENDERING, COMPLETE>>

\* list.index(phase) of phase_order, 1-based
index(p) == CHOOSE i \in 1..Len(phase_order) : phase_order[i] = p

\* a slip in the table: the forward edge of Sketch skips Refinement
VALID_TRANSITIONS_Skip ==
  [p \in DrawingPhase |->
     CASE p = SKETCH      -> {SKETCH, STYLIZATION}
       [] p = REFINEMENT  -> {SKETCH, REFINEMENT, STYLIZATION}
       [] p = STYLIZATION -> {REFINEMENT, STYLIZATION, RENDERING}
       [] p = RENDERING   -> {STYLIZATION, RENDERING, COMPLETE}
       [] p = COMPLETE    -> {COMPLETE, RENDERING}]

\* a table that also lets Sketch go straight to Rendering
VALID_TRANSITIONS_Leap ==
  [p \in DrawingPhase |->
     CASE p = SKETCH      -> {SKETCH, REFINEMENT, RENDERING}
       [] p = REFINEMENT  -> {SKETCH, REFINEMENT, STYLIZATION}
       [] p = STYLIZATION -> {REFINEMENT, STYLIZATION, RENDERING}
       [] p = RENDERING   -> {STYLIZATION, RENDERING, COMPLETE}
       [] p = COMPLETE    -> {COMPLETE, RENDERING}]

\* a table in which Complete cannot be reopened
VALID_TRANSITIONS_Absorbing ==
  [p \in DrawingPhase |->
     CASE p = SKETCH      -> {SKETCH, REFINEMENT}
       [] p = REFINEMENT  -> {SKETCH, REFINEMENT, STYLIZATION}
       [] p = STYLIZATION -> {REFINEMENT, STYLIZATION, RENDERING}
       [] p = RENDERING   -> {STYLIZATION, RENDERING, COMPLETE}
       [] p = COMPLETE    -> {COMPLETE}]

VALID_TRANSITIONS ==
  [p \in DrawingPhase |->
     CASE p = SKETCH      -> {SKETCH, REFINEMENT}
       [] p = REFINEMENT  -> {SKETCH, REFINEMENT, STYLIZATION}
       [] p = STYLIZATION -> {REFINEMENT, STYLIZATION, RENDERING}
       [] p = RENDERING   -> {STYLIZATION, RENDERING, COMPLETE}
       [] p = COMPLETE    -> {COMPLETE, RENDERING}]

\* VALID_TRANSITIONS.get(from_phase, set())
is_valid_transition(from_phase, to_phase) ==
  IF from_phase \in DOMAIN VALID_TRANSITIONS
    THEN to_phase \in VALID_TRANSITIONS[from_phase]
    ELSE FALSE

get_valid_next_phases(p) ==
  IF p \in DOMAIN VALID_TRANSITIONS THEN VALID_TRANSITIONS[p] ELSE {}

is_forward_progression(from_phase, to_phase) ==
  index(to_phase) > index(from_phase)

is_regression(from_phase, to_phase) ==
  index(to_phase) < index(from_phase)

\* ------------------------------------------------- stroke_intent.py (pure)
GESTURE == "gesture"
CONTOUR == "contour"
DETAIL == "detail"
CONSTRUCTION == "construction"
SHADING == "shading"
CLEANUP == "cleanup"

StrokeIntent == {GESTURE, CONTOUR, DETAIL, CONSTRUCTION, SHADING, CLEANUP}

PHASE_INTENTS ==
  [p \in DrawingPhase |->
     CASE p = SKETCH      -> {GESTURE, CONSTRUCTION}
       [] p = REFINEMENT  -> {CONTOUR, CONSTRUCTION, GESTURE}
       [] p = STYLIZATION -> {CONTOUR, DETAIL, CLEANUP}
       [] p = RENDERING   -> {DETAIL, SHADING, CLEANUP}
       [] p = COMPLETE    -> {}]

PRIMARY_INTENT ==
  [p \in DrawingPhase \ {COMPLETE} |->
     CASE p = SKETCH      -> GESTURE
       [] p = REFINEMENT  -> CONTOUR
       [] p = STYLIZATION -> CONTOUR
       [] p = RENDERING   -> DETAIL]

get_primary_intent(p) ==
  IF p \in DOMAIN PRIMARY_INTENT THEN PRIMARY_INTENT[p] ELSE None

is_intent_appropriate(p, intent) ==
  IF p \in DOMAIN PHASE_INTENTS THEN intent \in PHASE_INTENTS[p] ELSE FALSE

\* ------------------------------------------------------ motor/core/canvas.py
\* A Layer object.  metadata is the address of its dict in dict_heap: the
\* dict of the layer with id n is at address n, the dict of the canvas at 0.
Layer(name, layer_id) ==
  [kind |-> "Layer", name |-> name, layer_id |-> layer_id, metadata |-> layer_id]

\* what add_layer(name, position) puts in the list: an int, not a Layer
IntEntry(n) == [kind |-> "int", value |-> n]

\* Layer.to_dict: the scalars by value, metadata by reference
Layer_to_dict(l) ==
  [kind |-> "dict", name |-> l.name, layer_id |-> l.layer_id, metadata |-> l.metadata]

\* Layer.from_dict: cls(**data.copy()), the metadata dict is the one of data
Layer_from_dict(d) ==
  [kind |-> "Layer", name |-> d.name, layer_id |-> d.layer_id, metadata |-> d.metadata]

\* Canvas(width=800, height=600): __post_init__ adds the default layer
NewCanvas ==
  [width |-> 800, height |-> 600, canvas_id |-> "canvas", name |-> "Untitled",
   background_color |-> <<255, 255, 255, 255>>, dpi |-> 300,
   layers |-> << Layer("Layer 1", 1) >>, active_layer_id |-> 1, metadata |-> 0]

\* active_layer_id = None (layer ids start at 1)
NoLayer == 0

\* layer.to_dict() on an int raises AttributeError
Canvas_to_dict_raises(c) == \E i \in 1..Len(c.layers) : c.layers[i].kind = "int"

Canvas_to_dict(c) ==
  [width |-> c.width, height |-> c.height, canvas_id |-> c.canvas_id,
   name |-> c.name, background_color |-> c.background_color, dpi |-> c.dpi,
   layers |-> [i \in 1..Len(c.layers) |-> Layer_to_dict(c.layers[i])],
   active_layer_id |-> c.active_layer_id, metadata |-> c.metadata]

\* Canvas.from_dict needs a fresh layer (uuid, dict) when the list is empty
Canvas_from_dict_allocates(d) == Len(d.layers) = 0

\* Canvas.from_dict followed by __post_init__; fresh_id is the uuid of the
\* default layer __post_init__ creates when the restored list is empty
Canvas_from_dict(d, fresh_id) ==
  LET ls == [i \in 1..Len(d.layers) |-> Layer_from_dict(d.layers[i])]
  IN [width |-> d.width, height |-> d.height, canvas_id |-> d.canvas_id,
      name |-> d.name, background_color |-> d.background_color, dpi |-> d.dpi,
      layers |-> IF Len(ls) = 0 THEN << Layer("Layer 1", fresh_id) >> ELSE ls,
      active_layer_id |-> IF Len(ls) = 0 THEN fresh_id ELSE d.active_layer_id,
      metadata |-> d.metadata]

\* the first index at which the loop "for layer in layers: layer.layer_id == id"
\* stops: a match, or an int entry (AttributeError); 0 when it runs to the end
FirstHit(layers, layer_id) ==
  LET hits == {i \in 1..Len(layers) :
                 \/ layers[i].kind = "int"
                 \/ layers[i].layer_id = layer_id}
  IN IF hits = {} THEN 0 ELSE CHOOSE i \in hits : \A j \in hits : i <= j

RemoveAt(s, i) == [j \in 1..(Len(s) - 1) |-> IF j < i THEN s[j] ELSE s[j + 1]]

InsertAt(s, i, x) ==
  [j \in 1..(Len(s) + 1) |-> IF j < i THEN s[j] ELSE IF j = i THEN x ELSE s[j - 1]]

\* ------------------------------------------------------ motor/core/stroke.py
\* The k-th Stroke object the caller builds; its metadata dict is address k.
Stroke(k) == [kind |-> "Stroke", points |-> k, metadata |-> k]

\* Stroke.to_dict: the points by value, metadata by reference
Stroke_to_dict(s) == [kind |-> "dict", points |-> s.points, metadata |-> s.metadata]

\* Stroke.from_dict: a new Stroke around the dict's own metadata dict
Stroke_from_dict(d) == [kind |-> "Stroke", points |-> d.points, metadata |-> d.metadata]

\* ------------------------------------------------------------------- state
VARIABLES
  workflow_state,      \* WorkflowExecutor.workflow_state (a WorkflowState)
  stroke_history,      \* WorkflowExecutor.stroke_history (list of Stroke)
  checkpoint_manager,  \* WorkflowExecutor.checkpoint_manager
  decision_logger,     \* WorkflowExecutor.decision_logger, None when disabled
  canvas,              \* WorkflowExecutor.canvas (the live Canvas)
  stroke_meta,         \* heap: Stroke.metadata dicts, by address
  dict_heap,           \* heap: Canvas.metadata and Layer.metadata dicts
  now,                 \* the last reading of datetime.now()
  alloc,               \* Stroke objects built by the caller, uuids issued
  call,                \* the last call: operation, argument, return value
  restored,            \* the Canvas the last restore_checkpoint returned
  hist,                \* history variables of the run (not program state)
  pc,                  \* per calling thread: where it is in the call it makes
  twin                 \* two more executors driven side by side, << >> if none

vars == << workflow_state, stroke_history, checkpoint_manager, decision_logger,
           canvas, stroke_meta, dict_heap, now, alloc, call, restored, hist, pc, twin >>

\* no executors driven side by side
NoTwin == << >>

\* the threads that may call the executor
Threads == {1, 2}

\* a thread that is not inside a call; checkpoint is the local variable of
\* rollback_to_checkpoint, << >> while unbound
IdleThread ==
  [at |-> "idle", k |-> 0, intent |-> "None", stroke_id |-> 0,
   arg_phase |-> "None", reason |-> "", create |-> FALSE, checkpoint |-> << >>]

\* datetime.now() never goes back, and two readings may be equal.  A call
\* that stores the time stores one reading t for all its timestamps; now is
\* the last reading stored
Ticks(t) == {u \in {t, t + 1} : u <= MaxClock}

Reasons == {"quality"}

\* None where a map of metrics is expected (metric values are never negative)
NoMetrics == << -1 >>

\* the metrics argument of transition_to_phase: None (<< -1 >>), or a map
TransitionMetrics == { << -1 >>, << 80 >> }

\* evaluation maps, as the sequence of their values in hundredths
Metrics == { << >>, << 80 >>, << 20 >>, << 55 >> }

\* an id no create_checkpoint ever returned
UnknownId == -1

\* ------------------------------------------------------- workflow_state.py
\* PhaseTransition, reduced to the two phases (timestamp, reason, metrics and
\* confidence are stored and never read by the workflow)
PhaseTransition(from_phase, to_phase) ==
  [from_phase |-> from_phase, to_phase |-> to_phase]

\* WorkflowState(): the dataclass defaults
NewWorkflowState ==
  [current_phase |-> SKETCH, phase_history |-> << >>, phase_start_time |-> 0,
   iteration_in_phase |-> 0, total_strokes |-> 0, phase_stroke_count |-> 0]

\* the history is written before the transition is validated
WS_transition_to_phase_RecordFirst(ws, new_phase, t) ==
  LET rec == [ws EXCEPT !.phase_history =
                Append(@, PhaseTransition(ws.current_phase, new_phase))]
  IN IF ~is_valid_transition(ws.current_phase, new_phase)
       THEN [ok |-> FALSE, ws |-> rec]
       ELSE [ok |-> TRUE,
             ws |-> [rec EXCEPT
                       !.current_phase = new_phase,
                       !.phase_start_time = t,
                       !.iteration_in_phase =
                          IF new_phase = ws.current_phase THEN @ + 1 ELSE 0,
                       !.phase_stroke_count = 0]]

\* the per-phase counter is reset only when the phase changes
WS_transition_to_phase_KeepCount(ws, new_phase, t) ==
  IF ~is_valid_transition(ws.current_phase, new_phase)
    THEN [ok |-> FALSE, ws |-> ws]
    ELSE [ok |-> TRUE,
          ws |-> [ws EXCEPT
                    !.phase_history =
                       Append(@, PhaseTransition(ws.current_phase, new_phase)),
                    !.current_phase = new_phase,
                    !.phase_start_time = t,
                    !.iteration_in_phase =
                       IF new_phase = ws.current_phase THEN @ + 1 ELSE 0,
                    !.phase_stroke_count =
                       IF new_phase = ws.current_phase THEN @ ELSE 0]]

\* WorkflowState.transition_to_phase: the return value and the state after
WS_transition_to_phase(ws, new_phase, t) ==
  IF ~is_valid_transition(ws.current_phase, new_phase)
    THEN [ok |-> FALSE, ws |-> ws]
    ELSE [ok |-> TRUE,
          ws |-> [ws EXCEPT
                    !.phase_history =
                       Append(@, PhaseTransition(ws.current_phase, new_phase)),
                    !.current_phase = new_phase,
                    !.phase_start_time = t,
                    !.iteration_in_phase =
                       IF new_phase = ws.current_phase THEN @ + 1 ELSE 0,
                    !.phase_stroke_count = 0]]

\* only the per-phase counter is incremented
record_stroke_PhaseOnly(ws) ==
  [ws EXCEPT !.phase_stroke_count = @ + 1]

\* the total is counted twice for a stroke
record_stroke_Twice(ws) ==
  [ws EXCEPT !.total_strokes = @ + 2, !.phase_stroke_count = @ + 1]

\* WorkflowState.record_stroke
record_stroke(ws) ==
  [ws EXCEPT !.total_strokes = @ + 1, !.phase_stroke_count = @ + 1]

is_phase_complete(ws) == ws.current_phase = COMPLETE

\* --------------------------------------------------- checkpoint_manager.py
\* CheckpointManager(max_checkpoints)
NewCheckpointManager == [checkpoints |-> << >>, current_checkpoint_index |-> -1]

\* the metadata dict of a checkpoint by its keys; "" and << >> for a key
\* that is absent
CheckpointMetadata(type, reason, metrics) ==
  [type |-> type, reason |-> reason, metrics |-> metrics]

\* metadata or {} for metadata = None
NoCheckpointMetadata == CheckpointMetadata("", "", << >>)

\* CanvasCheckpoint; serial (the creation number) is a label of the model
CanvasCheckpoint(t_id, t_ts, phase, c, strokes, serial, metadata) ==
  [checkpoint_id |-> t_id, timestamp |-> t_ts, phase |-> phase,
   canvas_state |-> Canvas_to_dict(c),
   stroke_history |-> [i \in 1..Len(strokes) |-> Stroke_to_dict(strokes[i])],
   serial |-> serial, metadata |-> metadata]

\* CheckpointManager.create_checkpoint, from the append on
CM_create_checkpoint(cm, cp) ==
  LET all == Append(cm.checkpoints, cp)
  IN IF Len(all) > max_checkpoints
       THEN [checkpoints |-> Tail(all),
             current_checkpoint_index |-> Len(all) - 2]
       ELSE [checkpoints |-> all, current_checkpoint_index |-> Len(all) - 1]

\* an id that is not in the store falls back to the oldest checkpoint
FindCheckpoint_OrOldest(cm, checkpoint_id) ==
  LET hits == {i \in 1..Len(cm.checkpoints) :
                 cm.checkpoints[i].checkpoint_id = checkpoint_id}
  IN IF hits = {} THEN (IF Len(cm.checkpoints) = 0 THEN 0 ELSE 1)
     ELSE CHOOSE i \in hits : \A j \in hits : i <= j

\* position (1-based) of the first checkpoint with this id, 0 if there is none
FindCheckpoint(cm, checkpoint_id) ==
  LET hits == {i \in 1..Len(cm.checkpoints) :
                 cm.checkpoints[i].checkpoint_id = checkpoint_id}
  IN IF hits = {} THEN 0 ELSE CHOOSE i \in hits : \A j \in hits : i <= j

get_checkpoint(cm, checkpoint_id) ==
  IF FindCheckpoint(cm, checkpoint_id) = 0 THEN None
  ELSE cm.checkpoints[FindCheckpoint(cm, checkpoint_id)]

get_checkpoint_count(cm) == Len(cm.checkpoints)

\* position of the last checkpoint of the phase, 0 if there is none
LastOfPhase(cm, phase) ==
  LET hits == {i \in 1..Len(cm.checkpoints) : cm.checkpoints[i].phase = phase}
  IN IF hits = {} THEN 0 ELSE CHOOSE i \in hits : \A j \in hits : i >= j

\* an undo tree: the checkpoints after the target are dropped
CM_rollback_to_checkpoint_Prune(cm, checkpoint_id) ==
  IF FindCheckpoint(cm, checkpoint_id) = 0 THEN cm
  ELSE [checkpoints |-> SubSeq(cm.checkpoints, 1, FindCheckpoint(cm, checkpoint_id)),
        current_checkpoint_index |-> FindCheckpoint(cm, checkpoint_id) - 1]

\* CheckpointManager.rollback_to_checkpoint: the manager after the call
CM_rollback_to_checkpoint(cm, checkpoint_id) ==
  IF FindCheckpoint(cm, checkpoint_id) = 0 THEN cm
  ELSE [cm EXCEPT !.current_checkpoint_index = FindCheckpoint(cm, checkpoint_id) - 1]

\* CheckpointManager.get_stroke_history_at_checkpoint
get_stroke_history_at_checkpoint(cp) ==
  [i \in 1..Len(cp.stroke_history) |-> Stroke_from_dict(cp.stroke_history[i])]

\* ------------------------------------------------------ decision_logger.py
RECURSIVE Sum(_)
Sum(s) == IF Len(s) = 0 THEN 0 ELSE Head(s) + Sum(Tail(s))

\* the fraction num/den; the means of the logger are kept exact
Rat(n, d) == [num |-> n, den |-> d]

RatAdd(a, b) == Rat(a.num * b.den + b.num * a.den, a.den * b.den)

RECURSIVE RatSum(_)
RatSum(s) == IF Len(s) = 0 THEN Rat(0, 1) ELSE RatAdd(Head(s), RatSum(Tail(s)))

\* None as an improvement score
NoImprovement == Rat(0, 0)

\* the improvement is pre minus post
get_improvement_score_Reversed(decision) ==
  LET pre  == decision.pre_evaluation
      post == decision.post_evaluation
  IN IF pre # NoMetrics /\ Len(pre) > 0 /\ post # NoMetrics /\ Len(post) > 0
       THEN Rat(Sum(pre) * Len(post) - Sum(post) * Len(pre), Len(pre) * Len(post))
       ELSE NoImprovement

\* StrokeDecision.get_improvement_score: post_avg - pre_avg, None when a map
\* is None or empty
get_improvement_score(decision) ==
  LET pre  == decision.pre_evaluation
      post == decision.post_evaluation
  IN IF pre # NoMetrics /\ Len(pre) > 0 /\ post # NoMetrics /\ Len(post) > 0
       THEN Rat(Sum(post) * Len(pre) - Sum(pre) * Len(post), Len(pre) * Len(post))
       ELSE NoImprovement

\* a log that is born with its end_time set
PhaseDecisionLog_Closed(phase) ==
  [phase |-> phase, ended |-> TRUE, strokes |-> << >>,
   phase_evaluations |-> << >>, transition_reason |-> "",
   total_improvement |-> NoImprovement]

\* PhaseDecisionLog(phase, start_time); ended stands for end_time is not None
PhaseDecisionLog(phase) ==
  [phase |-> phase, ended |-> FALSE, strokes |-> << >>,
   phase_evaluations |-> << >>, transition_reason |-> "",
   total_improvement |-> NoImprovement]

\* PhaseDecisionLog.close_phase
PDL_close_phase(log, reason) ==
  LET scores       == [i \in 1..Len(log.strokes) |->
                         get_improvement_score(log.strokes[i])]
      IsScore(x)   == x # NoImprovement
      improvements == SelectSeq(scores, IsScore)
      total        == RatSum(improvements)
  IN [log EXCEPT !.ended = TRUE, !.transition_reason = reason,
                 !.total_improvement =
                    IF Len(improvements) > 0
                      THEN Rat(total.num, total.den * Len(improvements))
                      ELSE @]

\* DecisionLogger(); current_log is a position in phase_logs, 0 for None
NewDecisionLogger == [phase_logs |-> << >>, current_log |-> 0]

\* decision_logger = None (enable_logging = False)
NoLogger == [phase_logs |-> << >>, current_log |-> -1]

\* the reason of the caller is not written to the log
DL_close_phase_NoReason(dl, reason) ==
  IF dl.current_log = 0 THEN dl
  ELSE [dl EXCEPT !.phase_logs[dl.current_log] = PDL_close_phase(@, "")]

\* DecisionLogger.close_phase
DL_close_phase(dl, reason) ==
  IF dl.current_log = 0 THEN dl
  ELSE [dl EXCEPT !.phase_logs[dl.current_log] = PDL_close_phase(@, reason)]

\* the logs of the earlier phases are dropped when a phase starts
DL_start_phase_Reset(dl, phase) ==
  [phase_logs |-> << PhaseDecisionLog(phase) >>, current_log |-> 1]

\* the previous log is left open when the next one starts
DL_start_phase_KeepOpen(dl, phase) ==
  [phase_logs |-> Append(dl.phase_logs, PhaseDecisionLog(phase)),
   current_log |-> Len(dl.phase_logs) + 1]

\* DecisionLogger.start_phase
DL_start_phase(dl, phase) ==
  LET closed == IF dl.current_log # 0 /\ ~dl.phase_logs[dl.current_log].ended
                  THEN DL_close_phase(dl, "Phase transition")
                  ELSE dl
  IN [phase_logs |-> Append(closed.phase_logs, PhaseDecisionLog(phase)),
      current_log |-> Len(closed.phase_logs) + 1]

\* DecisionLogger.log_stroke
DL_log_stroke(dl, decision) ==
  LET open == IF dl.current_log = 0 THEN DL_start_phase(dl, decision.phase) ELSE dl
  IN [open EXCEPT !.phase_logs[open.current_log].strokes = Append(@, decision)]

\* the snapshot is written to the log twice
DL_log_evaluation_Twice(dl, evaluation) ==
  IF dl.current_log = 0 THEN dl
  ELSE [dl EXCEPT !.phase_logs[dl.current_log].phase_evaluations =
                     Append(Append(@, evaluation), evaluation)]

\* DecisionLogger.log_evaluation
DL_log_evaluation(dl, evaluation) ==
  IF dl.current_log = 0 THEN dl
  ELSE [dl EXCEPT !.phase_logs[dl.current_log].phase_evaluations =
                     Append(@, evaluation)]

\* DecisionLogger.get_total_stroke_count
get_total_stroke_count(dl) ==
  Sum([i \in 1..Len(dl.phase_logs) |-> Len(dl.phase_logs[i].strokes)])

\* ------------------------------------------------------ workflow_executor.py
\* the record of a call: its name, its argument (a phase or an id), what it
\* returned: ok (a bool), ret (an id), phase (a phase or None), or raised; and
\* n, the number of calls made on the executor so far
Call(op) ==
  [op |-> op, arg_phase |-> None, arg_id |-> 0, arg_metrics |-> << >>,
   arg_reason |-> "", arg_create |-> FALSE, arg_intent |-> None, ok |-> FALSE, ret |-> 0, phase |-> None, raised |-> FALSE, n |-> call.n + 1]

\* stroke.metadata without the keys execute_stroke writes
NoMeta == [intent |-> None, phase |-> None, refinement_pass |-> -1, stroke_id |-> 0]

\* what the run remembers of a checkpoint it created: the id handed out, the
\* creation number and the length of the stroke history at that moment
Issued(cp, strokes) ==
  [checkpoint_id |-> cp.checkpoint_id, serial |-> cp.serial, S |-> Len(strokes)]

Created == Len(hist.issued)

\* WorkflowExecutor(Canvas(800, 600), max_checkpoints, enable_logging):
\* __init__ and _initialize_workflow, read at clock 0
Init ==
  /\ workflow_state = NewWorkflowState
  /\ stroke_history = << >>
  /\ canvas = NewCanvas
  /\ checkpoint_manager =
       CM_create_checkpoint(NewCheckpointManager,
                            CanvasCheckpoint(0, 0, SKETCH, NewCanvas, << >>, 1,
                                             CheckpointMetadata("initial", "", << >>)))
  /\ decision_logger \in {NoLogger, DL_start_phase(NewDecisionLogger, SKETCH)}
  /\ stroke_meta = [k \in 1..MaxStrokes |-> NoMeta]
  /\ dict_heap = [a \in 0..MaxLayerIds |-> 0]
  /\ now = 0
  /\ alloc = [strokes |-> 0, layer_ids |-> 1]
  /\ call = [op |-> "__init__", arg_phase |-> None, arg_id |-> 0,
             arg_metrics |-> << >>,
             arg_reason |-> "", arg_create |-> FALSE, arg_intent |-> None, ok |-> FALSE,
             ret |-> 0, phase |-> None, raised |-> FALSE, n |-> 0]
  /\ restored = NewCanvas
  /\ hist = [issued |-> << [checkpoint_id |-> 0, serial |-> 1, S |-> 0] >>,
             exec_calls |-> 0, rollback_adj |-> 0, since_transition |-> 0,
             overlapped |-> FALSE]
  /\ pc = [t \in Threads |-> IdleThread]
  /\ twin = NoTwin

\* metrics or {}
MetricsOrEmpty(metrics) == IF metrics = NoMetrics THEN << >> ELSE metrics

\* WorkflowExecutor.transition_to_phase(new_phase, reason, metrics, create_checkpoint)
transition_to_phase_within(limit, new_phase, reason, metrics, create_cp) ==
  \E t \in Ticks(now) :
    LET r  == WS_transition_to_phase(workflow_state, new_phase, t)
        dl == IF decision_logger = NoLogger THEN NoLogger
              ELSE DL_start_phase(DL_close_phase(decision_logger, reason), new_phase)
        cp == CanvasCheckpoint(t, t, r.ws.current_phase, canvas,
                               stroke_history, Created + 1,
                               CheckpointMetadata("phase_transition", reason,
                                                  MetricsOrEmpty(metrics)))
        c  == [Call("transition_to_phase") EXCEPT
                 !.arg_phase = new_phase, !.arg_reason = reason,
                 !.arg_metrics = metrics, !.arg_create = create_cp]
    IN IF ~r.ok
         THEN /\ workflow_state' = r.ws
              /\ call' = [c EXCEPT !.ok = FALSE]
              /\ UNCHANGED << stroke_history, checkpoint_manager, decision_logger,
                              canvas, stroke_meta, dict_heap, now, alloc, restored,
                              hist >>
         ELSE /\ Len(workflow_state.phase_history) < limit
              /\ create_cp => Created < MaxCreated
              /\ workflow_state' = r.ws
              /\ decision_logger' = dl
              /\ IF ~create_cp
                   THEN /\ now' = t
                        /\ call' = [c EXCEPT !.ok = TRUE]
                        /\ hist' = [hist EXCEPT !.since_transition = 0]
                        /\ UNCHANGED checkpoint_manager
                   ELSE IF Canvas_to_dict_raises(canvas)
                   THEN /\ now' = t
                        /\ call' = [c EXCEPT !.raised = TRUE]
                        /\ hist' = [hist EXCEPT !.since_transition = 0]
                        /\ UNCHANGED checkpoint_manager
                   ELSE /\ now' = t
                        /\ call' = [c EXCEPT !.ok = TRUE]
                        /\ checkpoint_manager' =
                             CM_create_checkpoint(checkpoint_manager, cp)
                        /\ hist' = [hist EXCEPT
                                      !.since_transition = 0,
                                      !.issued = Append(@, Issued(cp, stroke_history))]
              /\ UNCHANGED << stroke_history, canvas, stroke_meta, dict_heap, alloc,
                              restored >>

\* WorkflowExecutor.transition_to_phase, in runs of at most MaxTransitions
\* accepted transitions
transition_to_phase(new_phase, reason, metrics, create_cp) ==
  transition_to_phase_within(MaxTransitions, new_phase, reason, metrics,
                             create_cp)

\* the workflow metadata is attached without the phase of the stroke
WorkflowMetadata_NoPhase(ws, intent, stroke_id) ==
  [intent |-> intent, phase |-> None,
   refinement_pass |-> ws.iteration_in_phase, stroke_id |-> stroke_id]

\* the content of stroke.metadata after metadata.update in execute_stroke
WorkflowMetadata(ws, intent, stroke_id) ==
  [intent |-> intent, phase |-> ws.current_phase,
   refinement_pass |-> ws.iteration_in_phase, stroke_id |-> stroke_id]

\* WorkflowExecutor.execute_stroke(stroke) with the intent left to the phase;
\* k names the Stroke object: one the caller used before, or a new one
execute_stroke(k, intent_arg) ==
  LET intent    == IF intent_arg # None THEN intent_arg
                   ELSE IF get_primary_intent(workflow_state.current_phase) = None
                     THEN GESTURE
                     ELSE get_primary_intent(workflow_state.current_phase)
      stroke_id == hist.exec_calls + 1
      stroke    == Stroke(k)
      decision  == [stroke_id |-> stroke_id, intent |-> intent,
                    phase |-> workflow_state.current_phase,
                    pre_evaluation |-> NoMetrics, post_evaluation |-> NoMetrics,
                    stroke_data |-> Stroke_to_dict(stroke)]
  IN /\ hist.exec_calls < MaxStrokes
     /\ k \in 1..(alloc.strokes + 1)
     /\ alloc' = [alloc EXCEPT !.strokes = IF k > @ THEN k ELSE @]
     /\ stroke_meta' = [stroke_meta EXCEPT
                          ![k] = WorkflowMetadata(workflow_state, intent, stroke_id)]
     /\ stroke_history' = Append(stroke_history, stroke)
     /\ workflow_state' = record_stroke(workflow_state)
     /\ decision_logger' = IF decision_logger = NoLogger THEN NoLogger
                           ELSE DL_log_stroke(decision_logger, decision)
     /\ now' = now
     /\ call' = [Call("execute_stroke") EXCEPT !.arg_id = k, !.ret = stroke_id,
                                               !.arg_intent = intent_arg]
     /\ hist' = [hist EXCEPT !.exec_calls = @ + 1, !.since_transition = @ + 1]
     /\ UNCHANGED << checkpoint_manager, canvas, dict_heap, restored >>

\* WorkflowExecutor.create_checkpoint(description, metadata)
create_checkpoint ==
  \E t \in Ticks(now) :
    LET cp == CanvasCheckpoint(t, t, workflow_state.current_phase, canvas,
                               stroke_history, Created + 1, NoCheckpointMetadata)
    IN /\ Created < MaxCreated
       /\ IF Canvas_to_dict_raises(canvas)
            THEN /\ now' = t
                 /\ call' = [Call("create_checkpoint") EXCEPT !.raised = TRUE]
                 /\ UNCHANGED << checkpoint_manager, hist >>
            ELSE /\ now' = t
                 /\ call' = [Call("create_checkpoint") EXCEPT !.ret = cp.checkpoint_id]
                 /\ checkpoint_manager' = CM_create_checkpoint(checkpoint_manager, cp)
                 /\ hist' = [hist EXCEPT !.issued = Append(@, Issued(cp, stroke_history))]
       /\ UNCHANGED << workflow_state, stroke_history, decision_logger, canvas,
                       stroke_meta, dict_heap, alloc, restored >>

\* the counters of the phase are reset with the phase
Restore_Recount(cp, c) ==
  LET fresh == Canvas_from_dict_allocates(cp.canvas_state)
      hs    == get_stroke_history_at_checkpoint(cp)
  IN /\ fresh => alloc.layer_ids < MaxLayerIds
     /\ canvas' = Canvas_from_dict(cp.canvas_state, alloc.layer_ids + 1)
     /\ alloc' = [alloc EXCEPT !.layer_ids = IF fresh THEN @ + 1 ELSE @]
     /\ dict_heap' = IF fresh THEN [dict_heap EXCEPT ![alloc.layer_ids + 1] = 0]
                     ELSE dict_heap
     /\ stroke_history' = hs
     /\ workflow_state' = [workflow_state EXCEPT
                             !.current_phase = cp.phase,
                             !.phase_start_time = cp.timestamp,
                             !.total_strokes = Len(hs),
                             !.iteration_in_phase = 0,
                             !.phase_stroke_count = 0]
     /\ call' = [c EXCEPT !.ok = TRUE]
     /\ hist' = [hist EXCEPT !.rollback_adj = Len(hs) - hist.exec_calls]
     /\ UNCHANGED << decision_logger, stroke_meta, now, restored >>

\* the rest of rollback_to_checkpoint once the manager returned cp
Restore(cp, c) ==
  LET fresh == Canvas_from_dict_allocates(cp.canvas_state)
      hs    == get_stroke_history_at_checkpoint(cp)
  IN /\ fresh => alloc.layer_ids < MaxLayerIds
     /\ canvas' = Canvas_from_dict(cp.canvas_state, alloc.layer_ids + 1)
     /\ alloc' = [alloc EXCEPT !.layer_ids = IF fresh THEN @ + 1 ELSE @]
     /\ dict_heap' = IF fresh THEN [dict_heap EXCEPT ![alloc.layer_ids + 1] = 0]
                     ELSE dict_heap
     /\ stroke_history' = hs
     /\ workflow_state' = [workflow_state EXCEPT
                             !.current_phase = cp.phase,
                             !.phase_start_time = cp.timestamp,
                             !.total_strokes = Len(hs)]
     /\ call' = [c EXCEPT !.ok = TRUE]
     /\ hist' = [hist EXCEPT !.rollback_adj = Len(hs) - hist.exec_calls]
     /\ UNCHANGED << decision_logger, stroke_meta, now, restored >>

\* WorkflowExecutor.rollback_to_checkpoint(checkpoint_id)
rollback_to_checkpoint(checkpoint_id) ==
  LET i == FindCheckpoint(checkpoint_manager, checkpoint_id)
      c == [Call("rollback_to_checkpoint") EXCEPT !.arg_id = checkpoint_id]
  IN IF i = 0
       THEN /\ call' = [c EXCEPT !.ok = FALSE]
            /\ UNCHANGED << workflow_state, stroke_history, checkpoint_manager,
                            decision_logger, canvas, stroke_meta, dict_heap, now,
                            alloc, restored, hist >>
       ELSE /\ checkpoint_manager' =
                 CM_rollback_to_checkpoint(checkpoint_manager, checkpoint_id)
            /\ Restore(checkpoint_manager.checkpoints[i], c)

\* WorkflowExecutor.rollback_to_phase(phase): the manager picks the last
\* checkpoint of the phase, and both look it up again by its id
rollback_to_phase(phase) ==
  LET last == LastOfPhase(checkpoint_manager, phase)
      id   == checkpoint_manager.checkpoints[last].checkpoint_id
      i    == FindCheckpoint(checkpoint_manager, id)
      c    == [Call("rollback_to_phase") EXCEPT !.arg_phase = phase]
  IN IF last = 0
       THEN /\ call' = [c EXCEPT !.ok = FALSE]
            /\ UNCHANGED << workflow_state, stroke_history, checkpoint_manager,
                            decision_logger, canvas, stroke_meta, dict_heap, now,
                            alloc, restored, hist >>
       ELSE /\ checkpoint_manager' = CM_rollback_to_checkpoint(checkpoint_manager, id)
            /\ Restore(checkpoint_manager.checkpoints[i], c)

\* evaluations logged so far, over all phase logs
Evaluations(dl) ==
  Sum([i \in 1..Len(dl.phase_logs) |-> Len(dl.phase_logs[i].phase_evaluations)])

\* progression is recommended on the first pass through a phase only
Decide_FirstPassOnly(ws, metrics, quality_threshold) ==
  LET p == ws.current_phase
  IN IF Len(metrics) = 0 THEN None
     ELSE IF Sum(metrics) >= quality_threshold * Len(metrics)
       THEN CASE p = SKETCH /\ ws.iteration_in_phase = 0      -> REFINEMENT
              [] p = REFINEMENT /\ ws.iteration_in_phase = 0  -> STYLIZATION
              [] p = STYLIZATION /\ ws.iteration_in_phase = 0 -> RENDERING
              [] p = RENDERING /\ ws.iteration_in_phase = 0   -> COMPLETE
              [] OTHER                                        -> None
     ELSE IF Sum(metrics) < 40 * Len(metrics) /\ ws.iteration_in_phase > 2
       THEN CASE p = RENDERING   -> STYLIZATION
              [] p = STYLIZATION -> REFINEMENT
              [] p = REFINEMENT  -> SKETCH
              [] OTHER           -> None
     ELSE None

\* regression is recommended as soon as the mean is under the threshold
Decide_EagerRegress(ws, metrics, quality_threshold) ==
  LET p == ws.current_phase
  IN IF Len(metrics) = 0 THEN None
     ELSE IF Sum(metrics) >= quality_threshold * Len(metrics)
       THEN CASE p = SKETCH      -> REFINEMENT
              [] p = REFINEMENT  -> STYLIZATION
              [] p = STYLIZATION -> RENDERING
              [] p = RENDERING   -> COMPLETE
              [] OTHER           -> None
     ELSE CASE p = RENDERING   -> STYLIZATION
            [] p = STYLIZATION -> REFINEMENT
            [] p = REFINEMENT  -> SKETCH
            [] OTHER           -> None

\* the decision of evaluate_and_decide_transition; metrics and threshold in
\* hundredths, so avg >= threshold is Sum >= threshold * len
Decide(ws, metrics, quality_threshold) ==
  LET p == ws.current_phase
  IN IF Len(metrics) = 0 THEN None
     ELSE IF Sum(metrics) >= quality_threshold * Len(metrics)
       THEN CASE p = SKETCH      -> REFINEMENT
              [] p = REFINEMENT  -> STYLIZATION
              [] p = STYLIZATION -> RENDERING
              [] p = RENDERING   -> COMPLETE
              [] OTHER           -> None
     ELSE IF Sum(metrics) < 40 * Len(metrics) /\ ws.iteration_in_phase > 2
       THEN CASE p = RENDERING   -> STYLIZATION
              [] p = STYLIZATION -> REFINEMENT
              [] p = REFINEMENT  -> SKETCH
              [] OTHER           -> None
     ELSE None

\* quality_threshold: float = 0.7, in hundredths
default_quality_threshold == 70

\* WorkflowExecutor.evaluate_and_decide_transition(metrics, quality_threshold)
evaluate_and_decide_transition(metrics, quality_threshold) ==
  /\ decision_logger # NoLogger => Evaluations(decision_logger) < MaxEvals
  /\ decision_logger' = IF decision_logger = NoLogger THEN NoLogger
                        ELSE DL_log_evaluation(decision_logger, metrics)
  /\ now' = now
  /\ call' = [Call("evaluate_and_decide_transition") EXCEPT
                !.arg_metrics = metrics,
                !.arg_id = quality_threshold,
                !.phase = Decide(workflow_state, metrics, quality_threshold)]
  /\ UNCHANGED << workflow_state, stroke_history, checkpoint_manager, canvas,
                  stroke_meta, dict_heap, alloc, restored, hist >>

\* WorkflowExecutor.get_phase_stroke_count(phase), over a history and a heap
get_phase_stroke_count(strokes, meta, phase) ==
  Cardinality({i \in 1..Len(strokes) : meta[strokes[i].metadata].phase = phase})

\* ------------------------------------------- the caller's use of the canvas
ExecutorUnchanged ==
  UNCHANGED << workflow_state, stroke_history, checkpoint_manager, decision_logger,
               stroke_meta, now, restored, hist >>

\* Canvas.add_layer(name): position is None, the layer is appended
add_layer(name) ==
  LET id == alloc.layer_ids + 1
  IN /\ alloc.layer_ids < MaxLayerIds
     /\ canvas' = [canvas EXCEPT !.layers = Append(@, Layer(name, id))]
     /\ alloc' = [alloc EXCEPT !.layer_ids = id]
     /\ dict_heap' = [dict_heap EXCEPT ![id] = 0]
     /\ call' = [Call("add_layer") EXCEPT !.ret = id]
     /\ ExecutorUnchanged

\* Canvas.add_layer(name, position): layers.insert(position, len(layers) - position)
add_layer_at(name, position) ==
  /\ position \in 0..Len(canvas.layers)
  /\ Len(canvas.layers) < MaxLayerIds + 1
  /\ canvas' = [canvas EXCEPT
                  !.layers = InsertAt(@, position + 1, IntEntry(Len(@) - position))]
  /\ call' = [Call("add_layer_at") EXCEPT !.arg_id = position]
  /\ UNCHANGED << alloc, dict_heap >>
  /\ ExecutorUnchanged

\* Canvas.remove_layer(layer_id)
remove_layer(layer_id) ==
  LET i      == FirstHit(canvas.layers, layer_id)
      popped == RemoveAt(canvas.layers, i)
      c      == [Call("remove_layer") EXCEPT !.arg_id = layer_id]
  IN /\ IF i = 0
          THEN /\ call' = [c EXCEPT !.ok = FALSE]
               /\ UNCHANGED canvas
        ELSE IF canvas.layers[i].kind = "int"
          THEN /\ call' = [c EXCEPT !.raised = TRUE]
               /\ UNCHANGED canvas
        ELSE IF canvas.active_layer_id # layer_id
          THEN /\ call' = [c EXCEPT !.ok = TRUE]
               /\ canvas' = [canvas EXCEPT !.layers = popped]
        ELSE IF Len(popped) = 0
          THEN /\ call' = [c EXCEPT !.ok = TRUE]
               /\ canvas' = [canvas EXCEPT !.layers = popped,
                                           !.active_layer_id = NoLayer]
        ELSE IF popped[1].kind = "int"
          THEN /\ call' = [c EXCEPT !.raised = TRUE]
               /\ canvas' = [canvas EXCEPT !.layers = popped]
          ELSE /\ call' = [c EXCEPT !.ok = TRUE]
               /\ canvas' = [canvas EXCEPT !.layers = popped,
                                           !.active_layer_id = popped[1].layer_id]
     /\ UNCHANGED << alloc, dict_heap >>
     /\ ExecutorUnchanged

\* Canvas.set_active_layer(layer_id), through get_layer
set_active_layer(layer_id) ==
  LET i == FirstHit(canvas.layers, layer_id)
      c == [Call("set_active_layer") EXCEPT !.arg_id = layer_id]
  IN /\ IF i = 0
          THEN /\ call' = [c EXCEPT !.ok = FALSE]
               /\ UNCHANGED canvas
        ELSE IF canvas.layers[i].kind = "int"
          THEN /\ call' = [c EXCEPT !.raised = TRUE]
               /\ UNCHANGED canvas
          ELSE /\ call' = [c EXCEPT !.ok = TRUE]
               /\ canvas' = [canvas EXCEPT !.active_layer_id = layer_id]
     /\ UNCHANGED << alloc, dict_heap >>
     /\ ExecutorUnchanged

\* Canvas.move_layer(layer_id, new_position)
move_layer(layer_id, new_position) ==
  LET i      == FirstHit(canvas.layers, layer_id)
      popped == RemoveAt(canvas.layers, i)
      pos    == IF new_position < Len(popped) THEN new_position ELSE Len(popped)
      c      == [Call("move_layer") EXCEPT !.arg_id = layer_id]
  IN /\ new_position \in 0..Len(canvas.layers)
     /\ IF i = 0
          THEN /\ call' = [c EXCEPT !.ok = FALSE]
               /\ UNCHANGED canvas
        ELSE IF canvas.layers[i].kind = "int"
          THEN /\ call' = [c EXCEPT !.raised = TRUE]
               /\ UNCHANGED canvas
          ELSE /\ call' = [c EXCEPT !.ok = TRUE]
               /\ canvas' = [canvas EXCEPT
                               !.layers = InsertAt(popped, pos + 1, canvas.layers[i])]
     /\ UNCHANGED << alloc, dict_heap >>
     /\ ExecutorUnchanged

\* canvas.metadata[key] = value on the live canvas: the dict goes from one
\* content to another
set_canvas_metadata ==
  /\ dict_heap' = [dict_heap EXCEPT ![canvas.metadata] = 1 - @]
  /\ call' = Call("set_canvas_metadata")
  /\ UNCHANGED << canvas, alloc >>
  /\ ExecutorUnchanged

\* layer.metadata[key] = value on the i-th layer of the live canvas
set_layer_metadata(i) ==
  /\ i \in 1..Len(canvas.layers)
  /\ canvas.layers[i].kind = "Layer"
  /\ dict_heap' = [dict_heap EXCEPT ![canvas.layers[i].metadata] = 1 - @]
  /\ call' = [Call("set_layer_metadata") EXCEPT !.arg_id = i]
  /\ UNCHANGED << canvas, alloc >>
  /\ ExecutorUnchanged

\* canvas.name = name on the live canvas
set_name(name) ==
  /\ canvas.name # name
  /\ canvas' = [canvas EXCEPT !.name = name]
  /\ call' = Call("set_name")
  /\ UNCHANGED << alloc, dict_heap >>
  /\ ExecutorUnchanged

\* CheckpointManager.restore_checkpoint(checkpoint) on the i-th stored checkpoint
restore_checkpoint(i) ==
  LET cp    == checkpoint_manager.checkpoints[i]
      fresh == Canvas_from_dict_allocates(cp.canvas_state)
  IN /\ i \in 1..Len(checkpoint_manager.checkpoints)
     /\ fresh => alloc.layer_ids < MaxLayerIds
     /\ restored' = Canvas_from_dict(cp.canvas_state, alloc.layer_ids + 1)
     /\ alloc' = [alloc EXCEPT !.layer_ids = IF fresh THEN @ + 1 ELSE @]
     /\ dict_heap' = IF fresh THEN [dict_heap EXCEPT ![alloc.layer_ids + 1] = 0]
                     ELSE dict_heap
     /\ call' = [Call("restore_checkpoint") EXCEPT !.arg_id = cp.serial]
     /\ UNCHANGED << workflow_state, stroke_history, checkpoint_manager,
                     decision_logger, canvas, stroke_meta, now, hist >>

\* ids the caller can hold: every id create_checkpoint returned, or none of them
KnownIds == {hist.issued[i].checkpoint_id : i \in 1..Len(hist.issued)} \cup {UnknownId}

\* a run is a bounded number of calls, made one after the other: no thread
\* is inside a call when the next call starts
Budget == call.n < MaxCalls /\ UNCHANGED << pc, twin >>

\* the executor driven by one caller, the canvas left as it was built
Next ==
  \/ Budget /\ \E p \in DrawingPhase : \E r \in Reasons : \E b \in BOOLEAN :
                 transition_to_phase(p, r, NoMetrics, b)
  \/ Budget /\ \E k \in 1..MaxStrokes : execute_stroke(k, None)
  \/ Budget /\ create_checkpoint
  \/ Budget /\ \E id \in KnownIds : rollback_to_checkpoint(id)
  \/ Budget /\ \E p \in DrawingPhase : rollback_to_phase(p)
  \/ Budget /\ \E m \in Metrics :
                 evaluate_and_decide_transition(m, default_quality_threshold)

Spec == Init /\ [][Next]_vars

\* the executor driven by a caller that passes the metrics behind a
\* transition, in runs of at most MaxMetricsCalls calls
BudgetMetrics == call.n < MaxMetricsCalls /\ UNCHANGED << pc, twin >>

NextMetrics ==
  \/ BudgetMetrics /\ \E p \in DrawingPhase : \E r \in Reasons :
                        \E m \in TransitionMetrics : \E b \in BOOLEAN :
                          transition_to_phase(p, r, m, b)
  \/ BudgetMetrics /\ \E k \in 1..MaxStrokes : execute_stroke(k, None)
  \/ BudgetMetrics /\ create_checkpoint
  \/ BudgetMetrics /\ \E id \in KnownIds : rollback_to_checkpoint(id)
  \/ BudgetMetrics /\ \E p \in DrawingPhase : rollback_to_phase(p)

SpecMetrics == Init /\ [][NextMetrics]_vars

\* the caller edits the canvas between checkpoints, restores and rollbacks
NextCanvas ==
  \/ Budget /\ add_layer("Layer 2")
  \/ Budget /\ \E pos \in 0..MaxLayerIds : add_layer_at("Layer 2", pos)
  \/ Budget /\ \E id \in 1..MaxLayerIds : remove_layer(id)
  \/ Budget /\ \E id \in 1..MaxLayerIds : set_active_layer(id)
  \/ Budget /\ \E id \in 1..MaxLayerIds : \E pos \in 0..MaxLayerIds : move_layer(id, pos)
  \/ Budget /\ set_canvas_metadata
  \/ Budget /\ \E i \in 1..(MaxLayerIds + 1) : set_layer_metadata(i)
  \/ Budget /\ set_name("Renamed")
  \/ Budget /\ create_checkpoint
  \/ Budget /\ \E i \in 1..max_checkpoints : restore_checkpoint(i)
  \/ Budget /\ \E id \in KnownIds : rollback_to_checkpoint(id)

SpecCanvas == Init /\ [][NextCanvas]_vars

\* ------------------------------------------------ the phase and intent model
PureCall(op, a, b, ok) ==
  [Call(op) EXCEPT !.arg_phase = a, !.phase = b, !.ok = ok, !.n = 0]

ExecutorIdle ==
  UNCHANGED << workflow_state, stroke_history, checkpoint_manager, decision_logger,
               canvas, stroke_meta, dict_heap, now, alloc, restored, hist, pc, twin >>

NextPure ==
  \/ \E a \in DrawingPhase : \E b \in DrawingPhase :
       call' = PureCall("is_valid_transition", a, b, is_valid_transition(a, b))
       /\ ExecutorIdle
  \/ \E a \in DrawingPhase : \E b \in DrawingPhase :
       call' = PureCall("is_forward_progression", a, b, is_forward_progression(a, b))
       /\ ExecutorIdle
  \/ \E a \in DrawingPhase : \E b \in DrawingPhase :
       call' = PureCall("is_regression", a, b, is_regression(a, b))
       /\ ExecutorIdle
  \/ \E a \in DrawingPhase : \E b \in StrokeIntent :
       call' = PureCall("is_intent_appropriate", a, b, is_intent_appropriate(a, b))
       /\ ExecutorIdle
  \/ \E a \in DrawingPhase :
       call' = PureCall("get_primary_intent", a, get_primary_intent(a), TRUE)
       /\ ExecutorIdle

SpecPure == Init /\ [][NextPure]_vars

\* ------------------------------------- the recommendation, phase by phase
\* an executor that went forward to phase p and then iterated there i times
\* (transition_to_phase(..., create_checkpoint=False), every call at clock 0)
MaxIterations == 3

\* evaluation maps and thresholds, in hundredths
DecideMetrics == Metrics \cup { << 40 >>, << 70 >>, << 60, 80 >>, << 30, 20 >> }

QualityThresholds == { 30, default_quality_threshold }

PathTo(p, i) == SubSeq(phase_order, 2, index(p)) \o [j \in 1..i |-> p]

RECURSIVE StateAfter(_, _)
StateAfter(ws, path) ==
  IF Len(path) = 0 THEN ws
  ELSE StateAfter(WS_transition_to_phase(ws, Head(path), 0).ws, Tail(path))

RECURSIVE LoggerAfter(_, _)
LoggerAfter(dl, path) ==
  IF Len(path) = 0 THEN dl
  ELSE LoggerAfter(DL_start_phase(DL_close_phase(dl, "quality"), Head(path)),
                   Tail(path))

InitDecide ==
  \E p \in DrawingPhase : \E i \in 0..MaxIterations :
    /\ workflow_state = StateAfter(NewWorkflowState, PathTo(p, i))
    /\ stroke_history = << >>
    /\ canvas = NewCanvas
    /\ checkpoint_manager =
         CM_create_checkpoint(NewCheckpointManager,
                              CanvasCheckpoint(0, 0, SKETCH, NewCanvas, << >>, 1,
                                             CheckpointMetadata("initial", "", << >>)))
    /\ decision_logger \in
         {NoLogger,
          LoggerAfter(DL_start_phase(NewDecisionLogger, SKETCH), PathTo(p, i))}
    /\ stroke_meta = [k \in 1..MaxStrokes |-> NoMeta]
    /\ dict_heap = [a \in 0..MaxLayerIds |-> 0]
    /\ now = 0
    /\ alloc = [strokes |-> 0, layer_ids |-> 1]
    /\ call = [op |-> IF Len(PathTo(p, i)) = 0 THEN "__init__"
                      ELSE "transition_to_phase",
               arg_phase |-> IF Len(PathTo(p, i)) = 0 THEN None ELSE p,
               arg_id |-> 0, arg_metrics |-> << >>,
               arg_reason |-> IF Len(PathTo(p, i)) = 0 THEN "" ELSE "quality",
               arg_create |-> FALSE, arg_intent |-> None,
               ok |-> Len(PathTo(p, i)) > 0,
               ret |-> 0, phase |-> None, raised |-> FALSE, n |-> 0]
    /\ restored = NewCanvas
    /\ hist = [issued |-> << [checkpoint_id |-> 0, serial |-> 1, S |-> 0] >>,
               exec_calls |-> 0, rollback_adj |-> 0, since_transition |-> 0,
               overlapped |-> FALSE]
    /\ pc = [t \in Threads |-> IdleThread]
    /\ twin = NoTwin

NextDecide ==
  Budget /\ \E m \in DecideMetrics : \E q \in QualityThresholds :
              evaluate_and_decide_transition(m, q)

SpecDecide == InitDecide /\ [][NextDecide]_vars

\* ------------------------------------------------------------------ claims
\* the transition table as the specification states it (section 4.1)
TransitionTable ==
  [p \in DrawingPhase |->
     CASE p = SKETCH      -> {SKETCH, REFINEMENT}
       [] p = REFINEMENT  -> {SKETCH, REFINEMENT, STYLIZATION}
       [] p = STYLIZATION -> {REFINEMENT, STYLIZATION, RENDERING}
       [] p = RENDERING   -> {STYLIZATION, RENDERING, COMPLETE}
       [] p = COMPLETE    -> {COMPLETE, RENDERING}]

\* C1: for every ordered pair (from, to) of the five phases,
\* is_valid_transition(from, to) is true exactly when to is in the table
\* entry of from.
C1_MatchesTable ==
  call.op = "is_valid_transition" =>
    (call.ok <=> call.phase \in TransitionTable[call.arg_phase])

C1_Witness ==
  /\ call.op = "is_valid_transition"
  /\ call.arg_phase = COMPLETE
  /\ call.phase = RENDERING
  /\ call.ok

\* C2: transition_to_phase with a target that is not allowed from the current
\* phase returns False and changes nothing: the workflow state, the stroke
\* history, the checkpoint store and the decision log are as before the call.
C2_InvalidTransitionNoEffect ==
  [][ ( /\ call'.n = call.n + 1
        /\ call'.op = "transition_to_phase"
        /\ call'.arg_phase \notin TransitionTable[workflow_state.current_phase] )
      => /\ ~call'.raised
         /\ call'.ok = FALSE
         /\ UNCHANGED << workflow_state, stroke_history, checkpoint_manager,
                         decision_logger, canvas, stroke_meta, dict_heap >> ]_vars

C2_Witness ==
  /\ call.op = "transition_to_phase"
  /\ call.arg_phase = RENDERING
  /\ ~call.ok
  /\ workflow_state.current_phase = SKETCH
  /\ Len(workflow_state.phase_history) > 0
  /\ Len(stroke_history) > 0

\* C3: after any sequence of executor operations, current_phase equals the
\* to_phase of the last record of phase_history, or Sketch when the history
\* is empty.
C3_PhaseMatchesHistory ==
  workflow_state.current_phase =
    IF Len(workflow_state.phase_history) = 0 THEN SKETCH
    ELSE workflow_state.phase_history[Len(workflow_state.phase_history)].to_phase

\* the content of a stored stroke, its metadata read through the heap
StrokeDictValue(d, sm) == [points |-> d.points, metadata |-> sm[d.metadata]]

\* the content of a serialised canvas, its dicts read through the heap
CanvasStateValue(cs, dh) ==
  [cs EXCEPT
     !.layers = [i \in 1..Len(cs.layers) |->
                   [cs.layers[i] EXCEPT !.metadata = dh[@]]],
     !.metadata = dh[@]]

\* what a reader of the checkpoint sees in canvas_state and stroke_history
CheckpointContent(cp, sm, dh) ==
  [canvas_state |-> CanvasStateValue(cp.canvas_state, dh),
   stroke_history |-> [i \in 1..Len(cp.stroke_history) |->
                         StrokeDictValue(cp.stroke_history[i], sm)]]

\* C4: a checkpoint stores values, not references: no later call changes the
\* canvas_state or stroke_history content of a checkpoint that stays in the
\* store.
C4_CheckpointIsValue ==
  [][ \A i \in 1..Len(checkpoint_manager.checkpoints) :
        \A j \in 1..Len(checkpoint_manager'.checkpoints) :
          checkpoint_manager.checkpoints[i].serial =
            checkpoint_manager'.checkpoints[j].serial
          => CheckpointContent(checkpoint_manager.checkpoints[i],
                               stroke_meta, dict_heap)
             = CheckpointContent(checkpoint_manager'.checkpoints[j],
                                 stroke_meta', dict_heap') ]_vars

\* C5: a successful rollback_to_checkpoint on the id of a checkpoint created
\* when stroke_history had length S leaves stroke_history with length S.
C5_RollbackRestoresLength ==
  (call.op = "rollback_to_checkpoint" /\ call.ok) =>
    \A i \in 1..Len(hist.issued) :
      hist.issued[i].checkpoint_id = call.arg_id
        => Len(stroke_history) = hist.issued[i].S

Min(a, b) == IF a < b THEN a ELSE b

\* C6: after n creations with max_checkpoints = k the store holds exactly the
\* min(n, k) most recently created checkpoints in creation order, its count
\* never exceeds k, and get_checkpoint returns None for every evicted id.
C6_BoundedOldestFirst ==
  LET n    == Len(hist.issued)
      kept == Min(n, max_checkpoints)
      cps  == checkpoint_manager.checkpoints
  IN /\ get_checkpoint_count(checkpoint_manager) = kept
     /\ get_checkpoint_count(checkpoint_manager) <= max_checkpoints
     /\ \A i \in 1..kept : cps[i].serial = n - kept + i
     /\ \A e \in 1..(n - kept) :
          FindCheckpoint(checkpoint_manager, hist.issued[e].checkpoint_id) = 0

\* the content of a live canvas, its dicts read through the heap
CanvasValue(c, dh) ==
  [c EXCEPT
     !.layers = [i \in 1..Len(c.layers) |->
                   IF c.layers[i].kind = "Layer"
                     THEN [c.layers[i] EXCEPT !.metadata = dh[@]]
                     ELSE c.layers[i]],
     !.metadata = dh[@]]

\* the stored checkpoint with this creation number (one restore_checkpoint
\* was just called on)
StoredBySerial(serial) ==
  checkpoint_manager.checkpoints[
    CHOOSE i \in 1..Len(checkpoint_manager.checkpoints) :
      checkpoint_manager.checkpoints[i].serial = serial]

\* C7: round trip: restore_checkpoint on a checkpoint that holds the live
\* canvas as it is now returns a canvas equal to the live canvas in every
\* field, whatever Canvas operations the live canvas went through.
C7_RoundTrip ==
  ( /\ call.op = "restore_checkpoint"
    /\ ~Canvas_to_dict_raises(canvas)
    /\ CanvasStateValue(StoredBySerial(call.arg_id).canvas_state, dict_heap)
         = CanvasStateValue(Canvas_to_dict(canvas), dict_heap) )
  => CanvasValue(restored, dict_heap) = CanvasValue(canvas, dict_heap)

\* C8: every successful transition_to_phase(new) appends exactly one record
\* (old phase, new) to phase_history, sets current_phase to new, sets
\* iteration_in_phase to old + 1 on a self-loop and to 0 otherwise, sets
\* phase_stroke_count to 0 and leaves total_strokes unchanged.
C8_TransitionEffect ==
  [][ ( /\ call'.n = call.n + 1
        /\ call'.op = "transition_to_phase"
        /\ call'.ok )
      => /\ workflow_state'.phase_history =
              Append(workflow_state.phase_history,
                     [from_phase |-> workflow_state.current_phase,
                      to_phase |-> call'.arg_phase])
         /\ workflow_state'.current_phase = call'.arg_phase
         /\ workflow_state'.iteration_in_phase =
              IF call'.arg_phase = workflow_state.current_phase
                THEN workflow_state.iteration_in_phase + 1
                ELSE 0
         /\ workflow_state'.phase_stroke_count = 0
         /\ workflow_state'.total_strokes = workflow_state.total_strokes ]_vars

C8_Witness ==
  /\ call.op = "transition_to_phase"
  /\ call.ok
  /\ workflow_state.phase_history =
       << PhaseTransition(SKETCH, SKETCH), PhaseTransition(SKETCH, SKETCH),
          PhaseTransition(SKETCH, SKETCH), PhaseTransition(SKETCH, REFINEMENT) >>
  /\ workflow_state.iteration_in_phase = 0

\* C9 as stated: after N calls to execute_stroke, interleaved with any other
\* executor operations, total_strokes = N.
C9_TotalIsCallCount ==
  workflow_state.total_strokes = hist.exec_calls

\* C9, amended: total_strokes = N as long as no rollback succeeded; a
\* successful rollback sets total_strokes to the length of the restored
\* stroke history, and every later execute_stroke adds one to it.
C9_TotalSinceRollback ==
  workflow_state.total_strokes = hist.exec_calls + hist.rollback_adj

C9_Witness ==
  /\ call.op = "execute_stroke"
  /\ hist.rollback_adj = -1
  /\ hist.exec_calls = 2
  /\ workflow_state.total_strokes = 1

\* get_phase_stroke_count(phase) in this state
CountNow(phase) == get_phase_stroke_count(stroke_history, stroke_meta, phase)

\* C10 as stated: get_phase_stroke_count(current_phase) equals the number of
\* execute_stroke calls made since the most recent successful
\* transition_to_phase.
C10_CountSinceTransition ==
  CountNow(workflow_state.current_phase) = hist.since_transition

\* C10, amended: get_phase_stroke_count(p) counts the entries of
\* stroke_history whose metadata names p, over every visit to p: no
\* transition_to_phase (self-loop or not) changes it for any phase, and every
\* execute_stroke raises the count of the current phase by at least one, by
\* exactly one (and no other count) when the metadata dict of the stroke is
\* not already that of a stroke in the history.
C10_CountByMetadata ==
  [][ /\ ( call'.n = call.n + 1 /\ call'.op = "transition_to_phase" )
         => \A p \in DrawingPhase :
              get_phase_stroke_count(stroke_history', stroke_meta', p) = CountNow(p)
      /\ ( call'.n = call.n + 1 /\ call'.op = "execute_stroke" )
         => /\ get_phase_stroke_count(stroke_history', stroke_meta',
                                      workflow_state.current_phase)
                 >= CountNow(workflow_state.current_phase) + 1
            /\ (\A i \in 1..Len(stroke_history) :
                    stroke_history[i].metadata # call'.arg_id)
               => \A p \in DrawingPhase :
                    get_phase_stroke_count(stroke_history', stroke_meta', p)
                      = CountNow(p) + (IF p = workflow_state.current_phase
                                         THEN 1 ELSE 0) ]_vars

C10_Witness ==
  /\ call.op = "transition_to_phase"
  /\ call.ok
  /\ call.arg_phase = SKETCH
  /\ hist.since_transition = 0
  /\ CountNow(workflow_state.current_phase) = 2

\* ------------------------------------- a DecisionLogger used on its own
\* logger = DecisionLogger(), then any calls of its four operations
InitLogger ==
  /\ decision_logger = NewDecisionLogger
  /\ workflow_state = NewWorkflowState
  /\ stroke_history = << >>
  /\ canvas = NewCanvas
  /\ checkpoint_manager = NewCheckpointManager
  /\ stroke_meta = [k \in 1..MaxStrokes |-> NoMeta]
  /\ dict_heap = [a \in 0..MaxLayerIds |-> 0]
  /\ now = 0
  /\ alloc = [strokes |-> 0, layer_ids |-> 1]
  /\ call = [op |-> "DecisionLogger", arg_phase |-> None, arg_id |-> 0,
             arg_metrics |-> << >>,
             arg_reason |-> "", arg_create |-> FALSE, arg_intent |-> None, ok |-> FALSE,
             ret |-> 0, phase |-> None, raised |-> FALSE, n |-> 0]
  /\ restored = NewCanvas
  /\ hist = [issued |-> << >>, exec_calls |-> 0, rollback_adj |-> 0,
             since_transition |-> 0, overlapped |-> FALSE]
  /\ pc = [t \in Threads |-> IdleThread]
  /\ twin = NoTwin

LoggerOnly ==
  UNCHANGED << workflow_state, stroke_history, checkpoint_manager, canvas,
               stroke_meta, dict_heap, now, alloc, restored, hist >>

\* logger.start_phase(phase)
start_phase(phase) ==
  /\ decision_logger' = DL_start_phase(decision_logger, phase)
  /\ call' = [Call("start_phase") EXCEPT !.arg_phase = phase]
  /\ LoggerOnly

\* logger.log_stroke(stroke_id, intent, phase, stroke_data=...)
log_stroke(phase, intent) ==
  /\ decision_logger' =
       DL_log_stroke(decision_logger,
                     [stroke_id |-> call.n + 1, intent |-> intent, phase |-> phase,
                      pre_evaluation |-> NoMetrics, post_evaluation |-> NoMetrics,
                      stroke_data |-> Stroke_to_dict(Stroke(1))])
  /\ call' = [Call("log_stroke") EXCEPT !.arg_phase = phase]
  /\ LoggerOnly

\* logger.log_evaluation(evaluation)
log_evaluation(evaluation) ==
  /\ decision_logger' = DL_log_evaluation(decision_logger, evaluation)
  /\ call' = [Call("log_evaluation") EXCEPT !.arg_metrics = evaluation]
  /\ LoggerOnly

\* logger.close_phase(reason)
close_phase(reason) ==
  /\ decision_logger' = DL_close_phase(decision_logger, reason)
  /\ call' = [Call("close_phase") EXCEPT !.arg_reason = reason]
  /\ LoggerOnly

NextLogger ==
  \/ Budget /\ \E p \in DrawingPhase : start_phase(p)
  \/ Budget /\ \E p \in DrawingPhase : log_stroke(p, get_primary_intent(p))
  \/ Budget /\ \E m \in Metrics : log_evaluation(m)
  \/ Budget /\ \E r \in Reasons : close_phase(r)

SpecLogger == InitLogger /\ [][NextLogger]_vars

\* the phase after p in the fixed order, None after the last
NextInOrder(p) ==
  IF index(p) < Len(phase_order) THEN phase_order[index(p) + 1] ELSE None

\* the phase before p in the fixed order, None before the first
PrevInOrder(p) ==
  IF index(p) > 1 THEN phase_order[index(p) - 1] ELSE None

\* the last call was evaluate_and_decide_transition with a non-empty map
EvaluatedSome ==
  call.op = "evaluate_and_decide_transition" /\ Len(call.arg_metrics) > 0

\* mean(call.arg_metrics) < x, x in hundredths
MeanBelow(x) == Sum(call.arg_metrics) < x * Len(call.arg_metrics)

C13_RegressRecommendation ==
  ( /\ EvaluatedSome
    /\ MeanBelow(call.arg_id)
    /\ MeanBelow(40)
    /\ workflow_state.iteration_in_phase > 2 )
    => /\ call.phase = PrevInOrder(workflow_state.current_phase)
       /\ (call.phase = None <=> workflow_state.current_phase = SKETCH)

C11_LoggedStrokeCount ==
  decision_logger # NoLogger
    => get_total_stroke_count(decision_logger) = hist.exec_calls

C11_Witness ==
  /\ decision_logger # NoLogger
  /\ call.op \in {"rollback_to_checkpoint", "rollback_to_phase"}
  /\ call.ok
  /\ Len(decision_logger.phase_logs) > 1
  /\ Len(stroke_history) = 0
  /\ get_total_stroke_count(decision_logger) = 2

\* the step is a call of one of the two rollback operations of the executor
RollbackStep ==
  /\ call'.n = call.n + 1
  /\ call'.op \in {"rollback_to_checkpoint", "rollback_to_phase"}

\* C15: rollback_to_checkpoint with an id that matches no stored checkpoint
\* and rollback_to_phase for a phase with no stored checkpoint return False
\* without raising and leave canvas, stroke_history, workflow state,
\* checkpoint store and decision log unchanged.
C15_UnknownRollbackNoEffect ==
  [][ ( /\ RollbackStep
        /\ \/ /\ call'.op = "rollback_to_checkpoint"
              /\ \A i \in 1..Len(checkpoint_manager.checkpoints) :
                    checkpoint_manager.checkpoints[i].checkpoint_id # call'.arg_id
           \/ /\ call'.op = "rollback_to_phase"
              /\ \A i \in 1..Len(checkpoint_manager.checkpoints) :
                    checkpoint_manager.checkpoints[i].phase # call'.arg_phase )
      => /\ call'.ok = FALSE
         /\ ~call'.raised
         /\ UNCHANGED << canvas, stroke_history, workflow_state, checkpoint_manager,
                         decision_logger, stroke_meta, dict_heap >> ]_vars

\* a rollback to the id of an evicted checkpoint, after a stroke
C15_Witness ==
  /\ call.op = "rollback_to_checkpoint"
  /\ ~call.ok
  /\ \E e \in 1..Len(hist.issued) : hist.issued[e].checkpoint_id = call.arg_id
  /\ Len(stroke_history) > 0

\* C16: rollback never prunes the store: a rollback leaves the stored
\* checkpoints identical in membership, order and content, those created
\* after the target included, so each of them can still be rolled back to.
C16_RollbackKeepsStore ==
  [][ RollbackStep
      => /\ checkpoint_manager'.checkpoints = checkpoint_manager.checkpoints
         /\ \A i \in 1..Len(checkpoint_manager.checkpoints) :
              /\ CheckpointContent(checkpoint_manager'.checkpoints[i],
                                   stroke_meta', dict_heap')
                   = CheckpointContent(checkpoint_manager.checkpoints[i],
                                       stroke_meta, dict_heap)
              /\ FindCheckpoint(checkpoint_manager',
                                checkpoint_manager.checkpoints[i].checkpoint_id) # 0 ]_vars

\* a successful rollback to a checkpoint that is not the newest of the store
C16_Witness ==
  /\ call.op \in {"rollback_to_checkpoint", "rollback_to_phase"}
  /\ call.ok
  /\ Len(checkpoint_manager.checkpoints) = max_checkpoints
  /\ checkpoint_manager.current_checkpoint_index = 0
  /\ checkpoint_manager.checkpoints[max_checkpoints].checkpoint_id
       # checkpoint_manager.checkpoints[1].checkpoint_id
  /\ Len(checkpoint_manager.checkpoints[max_checkpoints].stroke_history) > 0

\* C17: a successful rollback_to_checkpoint sets current_phase to the
\* checkpoint's phase, phase_start_time to its timestamp and total_strokes to
\* the length of the restored stroke history, and leaves phase_stroke_count,
\* iteration_in_phase, phase_history and the decision log as they were.
C17_RollbackFrame ==
  [][ ( /\ call'.n = call.n + 1
        /\ call'.op = "rollback_to_checkpoint"
        /\ call'.ok )
      => LET cp == checkpoint_manager'.checkpoints[
                     checkpoint_manager'.current_checkpoint_index + 1]
         IN /\ cp.checkpoint_id = call'.arg_id
            /\ workflow_state'.current_phase = cp.phase
            /\ workflow_state'.phase_start_time = cp.timestamp
            /\ workflow_state'.total_strokes = Len(cp.stroke_history)
            /\ Len(stroke_history') = Len(cp.stroke_history)
            /\ workflow_state'.phase_stroke_count = workflow_state.phase_stroke_count
            /\ workflow_state'.iteration_in_phase = workflow_state.iteration_in_phase
            /\ workflow_state'.phase_history = workflow_state.phase_history
            /\ decision_logger' = decision_logger ]_vars

C17_Witness ==
  /\ call.op = "rollback_to_checkpoint"
  /\ call.ok
  /\ workflow_state.current_phase = SKETCH
  /\ workflow_state.phase_history = << PhaseTransition(SKETCH, REFINEMENT),
                                       PhaseTransition(REFINEMENT, REFINEMENT) >>
  /\ workflow_state.iteration_in_phase = 1
  /\ workflow_state.phase_stroke_count = 1
  /\ workflow_state.total_strokes = 0
  /\ decision_logger # NoLogger

\* positions of the logs whose end_time is unset
OpenLogs(dl) == {i \in 1..Len(dl.phase_logs) : ~dl.phase_logs[i].ended}

\* start_phase was just called on a logger whose current log was open
StartOnOpenLog ==
  /\ call'.op = "start_phase"
  /\ decision_logger.current_log # 0
  /\ ~decision_logger.phase_logs[decision_logger.current_log].ended

C19_AfterConstruction ==
  call.op = "__init__"
    => /\ workflow_state.current_phase = SKETCH
       /\ workflow_state.phase_history = << >>
       /\ stroke_history = << >>
       /\ workflow_state.iteration_in_phase = 0
       /\ workflow_state.total_strokes = 0
       /\ workflow_state.phase_stroke_count = 0
       /\ get_checkpoint_count(checkpoint_manager) = 1
       /\ checkpoint_manager.checkpoints[1].phase = SKETCH
       /\ checkpoint_manager.checkpoints[1].stroke_history = << >>
       /\ checkpoint_manager.checkpoints[1].metadata.type = "initial"
       /\ decision_logger # NoLogger
            => /\ Len(decision_logger.phase_logs) = 1
               /\ decision_logger.current_log = 1
               /\ decision_logger.phase_logs[1].phase = SKETCH
               /\ ~decision_logger.phase_logs[1].ended
               /\ decision_logger.phase_logs[1].strokes = << >>

C19_Witness ==
  /\ call.op = "__init__"
  /\ call.n = 0
  /\ decision_logger # NoLogger
  /\ OpenLogs(decision_logger) = {1}
  /\ checkpoint_manager.checkpoints[1].serial = 1
  /\ Len(checkpoint_manager.checkpoints) = 1

\* C20: after a successful transition_to_phase(p, reason, metrics) with
\* logging enabled the log that was open before the call is closed with
\* transition_reason = reason and a new open log for p is the last entry of
\* phase_logs; when create_checkpoint is true the newest checkpoint of the
\* store was taken after the phase change (its phase is p) and carries
\* reason and metrics in its metadata; when it is false the store is
\* unchanged.
C20_TransitionBookkeeping ==
  [][ ( /\ call'.n = call.n + 1
        /\ call'.op = "transition_to_phase"
        /\ call'.ok )
      => /\ decision_logger # NoLogger
              => /\ OpenLogs(decision_logger) # {}
                 /\ \A k \in OpenLogs(decision_logger) :
                      /\ decision_logger'.phase_logs[k].ended
                      /\ decision_logger'.phase_logs[k].transition_reason
                           = call'.arg_reason
                      /\ decision_logger'.phase_logs[k].strokes
                           = decision_logger.phase_logs[k].strokes
                 /\ Len(decision_logger'.phase_logs)
                      = Len(decision_logger.phase_logs) + 1
                 /\ OpenLogs(decision_logger') = {Len(decision_logger'.phase_logs)}
                 /\ decision_logger'.phase_logs[Len(decision_logger'.phase_logs)].phase
                      = call'.arg_phase
         /\ IF call'.arg_create
              THEN LET cps    == checkpoint_manager'.checkpoints
                       newest == cps[Len(cps)]
                   IN /\ newest.serial = Created + 1
                      /\ newest.phase = call'.arg_phase
                      /\ newest.metadata.type = "phase_transition"
                      /\ newest.metadata.reason = call'.arg_reason
                      /\ newest.metadata.metrics =
                           IF call'.arg_metrics = NoMetrics THEN << >>
                           ELSE call'.arg_metrics
              ELSE checkpoint_manager' = checkpoint_manager ]_vars

C20_Witness ==
  /\ call.op = "transition_to_phase"
  /\ call.ok
  /\ decision_logger # NoLogger
  /\ call.arg_create
  /\ call.arg_metrics = << 80 >>
  /\ call.arg_reason = "quality"
  /\ call.arg_phase = REFINEMENT
  /\ Len(decision_logger.phase_logs) = 2
  /\ Len(decision_logger.phase_logs[1].strokes) = 1
  /\ decision_logger.phase_logs[1].transition_reason = "quality"
  /\ checkpoint_manager.checkpoints[
       Len(checkpoint_manager.checkpoints)].phase = REFINEMENT
  /\ checkpoint_manager.checkpoints[
       Len(checkpoint_manager.checkpoints)].metadata
       = CheckpointMetadata("phase_transition", "quality", << 80 >>)

\* C21: evaluate_and_decide_transition is advisory: for every input it
\* leaves current_phase, phase_history, iteration_in_phase, both stroke
\* counters, stroke_history, the canvas and the checkpoint store unchanged;
\* its only effect is one evaluation snapshot appended to the open decision
\* log when logging is enabled.
C21_EvaluateIsAdvisory ==
  [][ ( /\ call'.n = call.n + 1
        /\ call'.op = "evaluate_and_decide_transition" )
      => /\ ~call'.raised
         /\ UNCHANGED << workflow_state, stroke_history, canvas,
                         checkpoint_manager, stroke_meta, dict_heap >>
         /\ IF decision_logger = NoLogger
              THEN decision_logger' = NoLogger
              ELSE /\ Cardinality(OpenLogs(decision_logger)) = 1
                   /\ \A k \in OpenLogs(decision_logger) :
                        decision_logger' =
                          [decision_logger EXCEPT
                             !.phase_logs[k].phase_evaluations =
                                Append(@, call'.arg_metrics)] ]_vars

\* a recommendation to move on, given in Refinement after a stroke
C21_Witness ==
  /\ call.op = "evaluate_and_decide_transition"
  /\ call.phase = STYLIZATION
  /\ workflow_state.current_phase = REFINEMENT
  /\ Len(stroke_history) = 1
  /\ decision_logger # NoLogger
  /\ Len(decision_logger.phase_logs) = 2
  /\ decision_logger.phase_logs[2].phase_evaluations = << << 80 >> >>

\* position of the most recently created checkpoint of the phase in a store
\* that holds one
NewestOfPhase(cm, phase) ==
  CHOOSE i \in 1..Len(cm.checkpoints) :
    /\ cm.checkpoints[i].phase = phase
    /\ \A j \in 1..Len(cm.checkpoints) :
         cm.checkpoints[j].phase = phase
           => cm.checkpoints[j].serial <= cm.checkpoints[i].serial

\* C22: rollback_to_phase(p) restores the most recently created stored
\* checkpoint whose phase is p: it returns False exactly when the store holds
\* no checkpoint for p, and when it returns True current_phase = p and
\* stroke_history equals the stored history of that checkpoint.
C22_RollbackToPhase ==
  [][ ( /\ call'.n = call.n + 1
        /\ call'.op = "rollback_to_phase" )
      => LET cm   == checkpoint_manager
             some == \E i \in 1..Len(cm.checkpoints) :
                       cm.checkpoints[i].phase = call'.arg_phase
         IN /\ ~call'.raised
            /\ call'.ok <=> some
            /\ some
                 => /\ workflow_state'.current_phase = call'.arg_phase
                    /\ stroke_history' =
                         get_stroke_history_at_checkpoint(
                           cm.checkpoints[NewestOfPhase(cm, call'.arg_phase)]) ]_vars

\* the two phases are the same or neighbours in the fixed order
EqualOrAdjacent(a, b) ==
  \/ index(a) = index(b)
  \/ index(a) = index(b) + 1
  \/ index(b) = index(a) + 1

\* C23: no recorded transition skips a phase: every record of phase_history
\* has from_phase and to_phase equal or adjacent in the order Sketch,
\* Refinement, Stylization, Rendering, Complete; a request that would skip a
\* phase (Sketch -> Rendering is one) is rejected and current_phase reports
\* the phase it reported before.
C23_NoSkippedPhase ==
  [][ /\ \A i \in 1..Len(workflow_state'.phase_history) :
           EqualOrAdjacent(workflow_state'.phase_history[i].from_phase,
                           workflow_state'.phase_history[i].to_phase)
      /\ ( /\ call'.n = call.n + 1
           /\ call'.op = "transition_to_phase"
           /\ ~EqualOrAdjacent(workflow_state.current_phase, call'.arg_phase) )
         => /\ call'.ok = FALSE
            /\ ~call'.raised
            /\ workflow_state'.current_phase = workflow_state.current_phase
            /\ workflow_state'.phase_history = workflow_state.phase_history ]_vars

\* Sketch -> Rendering refused after a step forward and a step back
C23_Witness ==
  /\ call.op = "transition_to_phase"
  /\ call.arg_phase = RENDERING
  /\ ~call.ok
  /\ workflow_state.current_phase = SKETCH
  /\ workflow_state.phase_history = << PhaseTransition(SKETCH, REFINEMENT),
                                       PhaseTransition(REFINEMENT, SKETCH) >>

\* the entries of a stroke history as a reader sees them: each stroke with
\* the content of its metadata dict
HistoryContent(strokes, sm) ==
  [i \in 1..Len(strokes) |->
     [points |-> strokes[i].points, metadata |-> sm[strokes[i].metadata]]]

\* C24: stroke_history is append-only outside rollback: execute_stroke keeps
\* the previous history as an unchanged prefix (same entries, each with the
\* metadata attached when it was executed) and adds exactly one entry at the
\* end; transition_to_phase, create_checkpoint and
\* evaluate_and_decide_transition do not change it at all.
C24_HistoryAppendOnly ==
  [][ /\ ( call'.n = call.n + 1 /\ call'.op = "execute_stroke" )
         => /\ Len(stroke_history') = Len(stroke_history) + 1
            /\ SubSeq(HistoryContent(stroke_history', stroke_meta'),
                      1, Len(stroke_history))
                 = HistoryContent(stroke_history, stroke_meta)
      /\ ( /\ call'.n = call.n + 1
           /\ call'.op \in {"transition_to_phase", "create_checkpoint",
                            "evaluate_and_decide_transition"} )
         => HistoryContent(stroke_history', stroke_meta')
              = HistoryContent(stroke_history, stroke_meta) ]_vars

\* ------------------------------------- two threads calling one executor
\* The executor takes no lock.  A thread that called execute_stroke,
\* rollback_to_checkpoint or transition_to_phase runs the statements of the
\* method one after the other, and the other thread may run between any two
\* of them.  A step below is one statement of the method (a call into the
\* workflow state, the checkpoint manager or the logger counts as one).
MaxThreadCalls == 2

\* a call starts while the other thread is inside one
Overlap(t) == \E u \in Threads \ {t} : pc[u].at # "idle"

Enter(t, frame) ==
  /\ pc[t].at = "idle"
  /\ call.n < MaxThreadCalls
  /\ pc' = [pc EXCEPT ![t] = frame]
  /\ UNCHANGED twin

Goto(t, from, to) ==
  /\ pc[t].at = from
  /\ pc' = [pc EXCEPT ![t].at = to]
  /\ UNCHANGED twin

Return(t, from) ==
  /\ pc[t].at = from
  /\ pc' = [pc EXCEPT ![t] = IdleThread]
  /\ UNCHANGED twin

\* execute_stroke(stroke): the call, and the choice of the intent
T_execute_stroke(t, k) ==
  LET intent    == IF get_primary_intent(workflow_state.current_phase) = None
                     THEN GESTURE
                     ELSE get_primary_intent(workflow_state.current_phase)
      stroke_id == hist.exec_calls + 1
  IN /\ hist.exec_calls < MaxStrokes
     /\ k \in 1..(alloc.strokes + 1)
     /\ Enter(t, [IdleThread EXCEPT !.at = "workflow_metadata", !.k = k,
                                     !.intent = intent, !.stroke_id = stroke_id])
     /\ alloc' = [alloc EXCEPT !.strokes = IF k > @ THEN k ELSE @]
     /\ call' = [Call("execute_stroke") EXCEPT !.arg_id = k, !.ret = stroke_id]
     /\ hist' = [hist EXCEPT !.exec_calls = @ + 1,
                             !.overlapped = @ \/ Overlap(t)]
     /\ UNCHANGED << workflow_state, stroke_history, checkpoint_manager,
                     decision_logger, canvas, stroke_meta, dict_heap, now,
                     restored >>

\* workflow_metadata = StrokeMetadata(...); stroke.metadata.update(...)
T_workflow_metadata(t) ==
  /\ Goto(t, "workflow_metadata", "append")
  /\ stroke_meta' = [stroke_meta EXCEPT
                       ![pc[t].k] = WorkflowMetadata(workflow_state, pc[t].intent,
                                                     pc[t].stroke_id)]
  /\ UNCHANGED << workflow_state, stroke_history, checkpoint_manager,
                  decision_logger, canvas, dict_heap, now, alloc, call, restored,
                  hist >>

\* self.stroke_history.append(stroke)
T_append(t) ==
  /\ Goto(t, "append", "record_stroke")
  /\ stroke_history' = Append(stroke_history, Stroke(pc[t].k))
  /\ UNCHANGED << workflow_state, checkpoint_manager, decision_logger, canvas,
                  stroke_meta, dict_heap, now, alloc, call, restored, hist >>

\* self.workflow_state.record_stroke()
T_record_stroke(t) ==
  /\ Goto(t, "record_stroke", "log_stroke")
  /\ workflow_state' = record_stroke(workflow_state)
  /\ UNCHANGED << stroke_history, checkpoint_manager, decision_logger, canvas,
                  stroke_meta, dict_heap, now, alloc, call, restored, hist >>

\* self.decision_logger.log_stroke(...), and the return
T_log_stroke(t) ==
  LET decision == [stroke_id |-> pc[t].stroke_id, intent |-> pc[t].intent,
                   phase |-> workflow_state.current_phase,
                   pre_evaluation |-> NoMetrics, post_evaluation |-> NoMetrics,
                   stroke_data |-> Stroke_to_dict(Stroke(pc[t].k))]
  IN /\ Return(t, "log_stroke")
     /\ decision_logger' = IF decision_logger = NoLogger THEN NoLogger
                           ELSE DL_log_stroke(decision_logger, decision)
     /\ UNCHANGED << workflow_state, stroke_history, checkpoint_manager, canvas,
                     stroke_meta, dict_heap, now, alloc, call, restored, hist >>

\* rollback_to_checkpoint(checkpoint_id): the call and the lookup in the
\* manager; the method returns False when the id is not stored
T_rollback_to_checkpoint(t, checkpoint_id) ==
  LET i == FindCheckpoint(checkpoint_manager, checkpoint_id)
      c == [Call("rollback_to_checkpoint") EXCEPT !.arg_id = checkpoint_id]
  IN /\ IF i = 0
          THEN /\ Enter(t, IdleThread)
               /\ call' = [c EXCEPT !.ok = FALSE]
               /\ UNCHANGED checkpoint_manager
          ELSE /\ Enter(t, [IdleThread EXCEPT
                              !.at = "restore_canvas",
                              !.checkpoint = << checkpoint_manager.checkpoints[i] >>])
               /\ call' = [c EXCEPT !.ok = TRUE]
               /\ checkpoint_manager' =
                    CM_rollback_to_checkpoint(checkpoint_manager, checkpoint_id)
     /\ hist' = [hist EXCEPT !.overlapped = @ \/ Overlap(t)]
     /\ UNCHANGED << workflow_state, stroke_history, decision_logger, canvas,
                     stroke_meta, dict_heap, now, alloc, restored >>

\* self.canvas = self.checkpoint_manager.restore_checkpoint(checkpoint)
T_restore_canvas(t) ==
  LET cp    == pc[t].checkpoint[1]
      fresh == Canvas_from_dict_allocates(cp.canvas_state)
  IN /\ Goto(t, "restore_canvas", "restore_history")
     /\ fresh => alloc.layer_ids < MaxLayerIds
     /\ canvas' = Canvas_from_dict(cp.canvas_state, alloc.layer_ids + 1)
     /\ alloc' = [alloc EXCEPT !.layer_ids = IF fresh THEN @ + 1 ELSE @]
     /\ dict_heap' = IF fresh THEN [dict_heap EXCEPT ![alloc.layer_ids + 1] = 0]
                     ELSE dict_heap
     /\ UNCHANGED << workflow_state, stroke_history, checkpoint_manager,
                     decision_logger, stroke_meta, now, call, restored, hist >>

\* self.stroke_history = ...get_stroke_history_at_checkpoint(checkpoint)
T_restore_history(t) ==
  /\ Goto(t, "restore_history", "restore_phase")
  /\ stroke_history' = get_stroke_history_at_checkpoint(pc[t].checkpoint[1])
  /\ UNCHANGED << workflow_state, checkpoint_manager, decision_logger, canvas,
                  stroke_meta, dict_heap, now, alloc, call, restored, hist >>

\* self.workflow_state.current_phase = checkpoint.phase and
\* self.workflow_state.phase_start_time = checkpoint.timestamp
T_restore_phase(t) ==
  /\ Goto(t, "restore_phase", "restore_total")
  /\ workflow_state' = [workflow_state EXCEPT
                          !.current_phase = pc[t].checkpoint[1].phase,
                          !.phase_start_time = pc[t].checkpoint[1].timestamp]
  /\ UNCHANGED << stroke_history, checkpoint_manager, decision_logger, canvas,
                  stroke_meta, dict_heap, now, alloc, call, restored, hist >>

\* self.workflow_state.total_strokes = len(self.stroke_history), and the
\* return
T_restore_total(t) ==
  /\ Return(t, "restore_total")
  /\ workflow_state' = [workflow_state EXCEPT
                          !.total_strokes = Len(stroke_history)]
  /\ UNCHANGED << stroke_history, checkpoint_manager, decision_logger, canvas,
                  stroke_meta, dict_heap, now, alloc, call, restored, hist >>

\* transition_to_phase(new_phase, reason, create_checkpoint): the call and
\* self.workflow_state.transition_to_phase(...); False when it is refused
T_transition_to_phase(t, new_phase, reason, create_cp) ==
  \E u \in Ticks(now) :
    LET r == WS_transition_to_phase(workflow_state, new_phase, u)
        c == [Call("transition_to_phase") EXCEPT
                !.arg_phase = new_phase, !.arg_reason = reason,
                !.arg_create = create_cp]
    IN /\ IF ~r.ok
            THEN /\ Enter(t, IdleThread)
                 /\ call' = [c EXCEPT !.ok = FALSE]
                 /\ UNCHANGED << workflow_state, now >>
            ELSE /\ Len(workflow_state.phase_history) < MaxTransitions
                 /\ Enter(t, [IdleThread EXCEPT
                                !.at = "close_phase", !.arg_phase = new_phase,
                                !.reason = reason, !.create = create_cp])
                 /\ call' = [c EXCEPT !.ok = TRUE]
                 /\ workflow_state' = r.ws
                 /\ now' = u
       /\ hist' = [hist EXCEPT !.overlapped = @ \/ Overlap(t)]
       /\ UNCHANGED << stroke_history, checkpoint_manager, decision_logger,
                       canvas, stroke_meta, dict_heap, alloc, restored >>

\* self.decision_logger.close_phase(reason)
T_close_phase(t) ==
  /\ Goto(t, "close_phase", "start_phase")
  /\ decision_logger' = IF decision_logger = NoLogger THEN NoLogger
                        ELSE DL_close_phase(decision_logger, pc[t].reason)
  /\ UNCHANGED << workflow_state, stroke_history, checkpoint_manager, canvas,
                  stroke_meta, dict_heap, now, alloc, call, restored, hist >>

\* self.decision_logger.start_phase(new_phase); the return when no
\* checkpoint was asked for
T_start_phase(t) ==
  /\ IF pc[t].create THEN Goto(t, "start_phase", "create_checkpoint")
                     ELSE Return(t, "start_phase")
  /\ decision_logger' = IF decision_logger = NoLogger THEN NoLogger
                        ELSE DL_start_phase(decision_logger, pc[t].arg_phase)
  /\ UNCHANGED << workflow_state, stroke_history, checkpoint_manager, canvas,
                  stroke_meta, dict_heap, now, alloc, call, restored, hist >>

\* self.create_checkpoint(...) at the phase boundary, and the return
T_create_checkpoint(t) ==
  \E u \in Ticks(now) :
    LET cp == CanvasCheckpoint(u, u, workflow_state.current_phase, canvas,
                               stroke_history, Created + 1,
                               CheckpointMetadata("phase_transition",
                                                  pc[t].reason, << >>))
    IN /\ Return(t, "create_checkpoint")
       /\ Created < MaxCreated
       /\ now' = u
       /\ checkpoint_manager' = CM_create_checkpoint(checkpoint_manager, cp)
       /\ hist' = [hist EXCEPT !.issued = Append(@, Issued(cp, stroke_history))]
       /\ UNCHANGED << workflow_state, stroke_history, decision_logger, canvas,
                       stroke_meta, dict_heap, alloc, call, restored >>

NextThreads ==
  \/ \E t \in Threads : \E k \in 1..MaxStrokes : T_execute_stroke(t, k)
  \/ \E t \in Threads : T_workflow_metadata(t)
  \/ \E t \in Threads : T_append(t)
  \/ \E t \in Threads : T_record_stroke(t)
  \/ \E t \in Threads : T_log_stroke(t)
  \/ \E t \in Threads : \E id \in KnownIds : T_rollback_to_checkpoint(t, id)
  \/ \E t \in Threads : T_restore_canvas(t)
  \/ \E t \in Threads : T_restore_history(t)
  \/ \E t \in Threads : T_restore_phase(t)
  \/ \E t \in Threads : T_restore_total(t)
  \/ \E t \in Threads : \E p \in DrawingPhase : \E r \in Reasons :
       \E b \in BOOLEAN : T_transition_to_phase(t, p, r, b)
  \/ \E t \in Threads : T_close_phase(t)
  \/ \E t \in Threads : T_start_phase(t)
  \/ \E t \in Threads : T_create_checkpoint(t)

SpecThreads == Init /\ [][NextThreads]_vars

\* the thread is between the first and the last statement of a rollback
InRollback(t) ==
  pc[t].at \in {"restore_canvas", "restore_history", "restore_phase",
                "restore_total"}

\* the step is a statement of execute_stroke, run by t, that records the
\* stroke in the history, the workflow state or the decision log
RecordsStroke(t) ==
  /\ pc[t].at \in {"append", "record_stroke", "log_stroke"}
  /\ pc'[t] # pc[t]

\* no thread is inside a call
Quiescent == \A t \in Threads : pc[t].at = "idle"

LogsGrown(dl, dl2) ==
  { i \in 1..Len(dl2.phase_logs) :
      IF i > Len(dl.phase_logs) THEN Len(dl2.phase_logs[i].strokes) > 0
      ELSE Len(dl2.phase_logs[i].strokes) > Len(dl.phase_logs[i].strokes) }

\* C26: DecisionLogger.log_stroke always stores the decision in an open
\* log: when no log is open (none was started, or the current one was
\* closed with close_phase) it first opens a new log for the given phase, so
\* no decision is ever appended to a log whose end_time is set.
C26_StrokeStoredInOpenLog ==
  [][ call'.op = "log_stroke"
      => /\ LogsGrown(decision_logger, decision_logger') # {}
         /\ \A i \in LogsGrown(decision_logger, decision_logger') :
              ~decision_logger'.phase_logs[i].ended ]_vars

\* -------------------- a DecisionLogger given strokes with evaluation maps
MaxImprovementCalls == 3

\* the pre_evaluation and post_evaluation arguments of log_stroke: None, the
\* empty map, or the values of a map in hundredths
EvaluationMaps == { NoMetrics, << >>, << 50 >>, << 20 >>, << 70, 80 >> }

BudgetImprovement == call.n < MaxImprovementCalls /\ UNCHANGED << pc, twin >>

\* logger.log_stroke(stroke_id, intent, phase, pre_evaluation=...,
\* post_evaluation=...)
log_stroke_evaluated(phase, pre, post) ==
  /\ decision_logger' =
       DL_log_stroke(decision_logger,
                     [stroke_id |-> call.n + 1,
                      intent |-> get_primary_intent(phase), phase |-> phase,
                      pre_evaluation |-> pre, post_evaluation |-> post,
                      stroke_data |-> Stroke_to_dict(Stroke(1))])
  /\ call' = [Call("log_stroke") EXCEPT !.arg_phase = phase]
  /\ LoggerOnly

NextImprovement ==
  \/ BudgetImprovement /\ \E pre \in EvaluationMaps : \E post \in EvaluationMaps :
       log_stroke_evaluated(SKETCH, pre, post)
  \/ BudgetImprovement /\ start_phase(REFINEMENT)
  \/ BudgetImprovement /\ \E r \in Reasons : close_phase(r)

SpecImprovement == InitLogger /\ [][NextImprovement]_vars

\* the map is there and has values to take the mean of
HasMap(m) == m # NoMetrics /\ Len(m) > 0

\* the decisions of the log that have both maps
WithBoth(log) ==
  { i \in 1..Len(log.strokes) :
      HasMap(log.strokes[i].pre_evaluation) /\ HasMap(log.strokes[i].post_evaluation) }

\* the sum over the decisions in D of (mean of post - mean of pre), as a
\* fraction
RECURSIVE SumOfGains(_, _)
SumOfGains(log, D) ==
  IF D = {} THEN Rat(0, 1)
  ELSE LET i    == CHOOSE j \in D : TRUE
           pre  == log.strokes[i].pre_evaluation
           post == log.strokes[i].post_evaluation
       IN RatAdd(RatAdd(Rat(Sum(post), Len(post)), Rat(0 - Sum(pre), Len(pre))),
                 SumOfGains(log, D \ {i}))

\* total_improvement of the log is the mean of the gains of its decisions
\* with both maps, and unset when there is none
ImprovementIsMean(log) ==
  LET D == WithBoth(log)
      g == SumOfGains(log, D)
      t == log.total_improvement
  IN IF D = {} THEN t = NoImprovement
     ELSE /\ t.den # 0
          /\ t.num * g.den * Cardinality(D) = g.num * t.den

\* the step closed the log at position i of phase_logs
Closes(i) ==
  \/ /\ call'.op = "close_phase"
     /\ i = decision_logger.current_log
  \/ /\ StartOnOpenLog
     /\ i = decision_logger.current_log

\* C27: when a phase log is closed, total_improvement is the mean, over
\* exactly the decisions of the log that have both a pre- and a
\* post-evaluation map, of (mean of post values - mean of pre values); it is
\* left unset when no decision has both, and closing never fails on a
\* decision with a missing map.
C27_TotalImprovement ==
  [][ \A i \in 1..Len(decision_logger.phase_logs) :
        Closes(i) => /\ decision_logger'.phase_logs[i].ended
                     /\ ImprovementIsMean(decision_logger'.phase_logs[i])
                     /\ ~call'.raised ]_vars

\* a closed log with two decisions: one gained 55 (20 to the mean of 70 and
\* 80), one lost 30 (50 to 20); the total is 25/2
C27_Witness ==
  /\ call.op = "close_phase"
  /\ Len(decision_logger.phase_logs) = 1
  /\ LET log == decision_logger.phase_logs[1]
     IN /\ log.ended
        /\ Len(log.strokes) = 2
        /\ Cardinality(WithBoth(log)) = 2
        /\ log.total_improvement.den # 0
        /\ log.total_improvement.num * 2 = 25 * log.total_improvement.den

\* ------------------------- strokes executed in every phase, any intent
MaxStrokeCalls == 3

\* the intent argument of execute_stroke: None, or an intent
IntentArguments == StrokeIntent \cup {None}

BudgetStroke == call.n < MaxStrokeCalls /\ UNCHANGED << pc, twin >>

\* an executor in any phase and pass; strokes with or without an intent,
\* and checkpoints between them
NextStroke ==
  \/ BudgetStroke /\ \E k \in 1..MaxStrokes : \E intent \in IntentArguments :
                       execute_stroke(k, intent)
  \/ BudgetStroke /\ create_checkpoint

SpecStroke == InitDecide /\ [][NextStroke]_vars

\* the intent a stroke without one is given in phase p
ClaimedIntent(p) ==
  CASE p = SKETCH      -> GESTURE
    [] p = REFINEMENT  -> CONTOUR
    [] p = STYLIZATION -> CONTOUR
    [] p = RENDERING   -> DETAIL
    [] p = COMPLETE    -> GESTURE

\* C28: execute_stroke called without an intent attaches the primary
\* intent of the current phase (Sketch: Gesture, Refinement: Contour,
\* Stylization: Contour, Rendering: Detail), and Gesture at Complete; the
\* metadata of the stroke records the current phase, and refinement_pass
\* equal to iteration_in_phase at the time of the call.
C28_DefaultIntent ==
  [][ call'.op = "execute_stroke"
      => LET m == stroke_meta'[call'.arg_id]
         IN /\ m.phase = workflow_state.current_phase
            /\ m.refinement_pass = workflow_state.iteration_in_phase
            /\ call'.arg_intent = None
                 => m.intent = ClaimedIntent(workflow_state.current_phase)
            /\ call'.arg_intent # None => m.intent = call'.arg_intent ]_vars

\* a stroke without an intent executed at Complete
C28_Witness ==
  /\ call.op = "execute_stroke"
  /\ call.arg_intent = None
  /\ workflow_state.current_phase = COMPLETE
  /\ stroke_meta[call.arg_id].intent = GESTURE
  /\ stroke_meta[call.arg_id].phase = COMPLETE
  /\ stroke_meta[call.arg_id].refinement_pass = workflow_state.iteration_in_phase

\* what a reader sees in the store: the checkpoints in order, with their
\* content
StoreContent(cm, sm, dh) ==
  [i \in 1..Len(cm.checkpoints) |->
     [serial  |-> cm.checkpoints[i].serial,
      phase   |-> cm.checkpoints[i].phase,
      content |-> CheckpointContent(cm.checkpoints[i], sm, dh)]]

\* C29: every execute_stroke call is accepted, in every phase and with
\* every intent, and its whole effect is: total_strokes + 1,
\* phase_stroke_count + 1, one stroke appended to stroke_history, one
\* StrokeDecision appended to the decision log when logging is enabled;
\* current_phase, phase_history, iteration_in_phase, the canvas and the
\* checkpoint store are unchanged.
C29_StrokeWholeEffect ==
  [][ call'.op = "execute_stroke"
      => /\ ~call'.raised
         /\ workflow_state'.total_strokes = workflow_state.total_strokes + 1
         /\ workflow_state'.phase_stroke_count =
              workflow_state.phase_stroke_count + 1
         /\ stroke_history' = Append(stroke_history, Stroke(call'.arg_id))
         /\ IF decision_logger = NoLogger THEN decision_logger' = NoLogger
            ELSE get_total_stroke_count(decision_logger') =
                   get_total_stroke_count(decision_logger) + 1
         /\ workflow_state'.current_phase = workflow_state.current_phase
         /\ workflow_state'.phase_history = workflow_state.phase_history
         /\ workflow_state'.iteration_in_phase = workflow_state.iteration_in_phase
         /\ CanvasValue(canvas', dict_heap') = CanvasValue(canvas, dict_heap)
         /\ StoreContent(checkpoint_manager', stroke_meta', dict_heap')
              = StoreContent(checkpoint_manager, stroke_meta, dict_heap) ]_vars

\* the dicts a canvas, or a serialised canvas, holds: its own metadata and
\* the metadata of its layers
DictsOf(c) ==
  {c.metadata} \cup
  {c.layers[i].metadata :
     i \in {j \in 1..Len(c.layers) : c.layers[j].kind \in {"Layer", "dict"}}}

\* the dicts held by the stored checkpoints
DictsOfStore(cm) ==
  UNION {DictsOf(cm.checkpoints[i].canvas_state) : i \in 1..Len(cm.checkpoints)}

\* C30: restore_checkpoint returns a fresh, independently owned canvas and
\* does not change the store: the returned canvas shares no mutable part
\* with the checkpoint or with the live canvas, so that mutating one of them
\* afterwards does not change the others.
C30_RestoredIsIndependent ==
  [][ call'.op = "restore_checkpoint"
      => /\ StoreContent(checkpoint_manager', stroke_meta', dict_heap')
              = StoreContent(checkpoint_manager, stroke_meta, dict_heap)
         /\ DictsOf(restored') \cap DictsOfStore(checkpoint_manager') = {}
         /\ DictsOf(restored') \cap DictsOf(canvas') = {} ]_vars

\* C31: checkpoint ids are unique within the store: no two stored
\* checkpoints share a checkpoint_id, also when they were created at the
\* same clock reading, so get_checkpoint(id) returns exactly the checkpoint
\* that create_checkpoint returned with that id while it is stored.
C31_UniqueCheckpointIds ==
  \A i \in 1..Len(checkpoint_manager.checkpoints) :
    /\ \A j \in 1..Len(checkpoint_manager.checkpoints) :
         checkpoint_manager.checkpoints[i].checkpoint_id =
           checkpoint_manager.checkpoints[j].checkpoint_id => i = j
    /\ FindCheckpoint(checkpoint_manager,
                      checkpoint_manager.checkpoints[i].checkpoint_id) = i

\* --------------------------- rollbacks over snapshots that were damaged
MaxDamageCalls == 5

BudgetDamage == call.n < MaxDamageCalls /\ UNCHANGED << pc, twin >>

\* Layer.from_dict raises on a layer dict that is not one (cls(**data))
Canvas_from_dict_raises(d) ==
  \E i \in 1..Len(d.layers) : d.layers[i].kind = "malformed"

\* Stroke.from_dict raises on a stroke dict that is not one
\* (StrokePoint(**p), StrokeType(...))
get_stroke_history_raises(cp) ==
  \E i \in 1..Len(cp.stroke_history) : cp.stroke_history[i].kind = "malformed"

DamageOnly ==
  UNCHANGED << workflow_state, stroke_history, decision_logger, canvas,
               stroke_meta, dict_heap, now, alloc, restored, hist >>

\* the stored canvas_state of the i-th checkpoint is damaged outside the
\* executor: its first layer dict no longer deserializes
damage_canvas_state(i) ==
  /\ i \in 1..Len(checkpoint_manager.checkpoints)
  /\ Len(checkpoint_manager.checkpoints[i].canvas_state.layers) > 0
  /\ checkpoint_manager.checkpoints[i].canvas_state.layers[1].kind = "dict"
  /\ checkpoint_manager' =
       [checkpoint_manager EXCEPT
          !.checkpoints[i].canvas_state.layers[1].kind = "malformed"]
  /\ call' = [Call("damage_canvas_state") EXCEPT !.arg_id = i]
  /\ DamageOnly

\* the stored stroke_history of the i-th checkpoint is damaged outside the
\* executor: its first stroke dict no longer deserializes
damage_stroke_history(i) ==
  /\ i \in 1..Len(checkpoint_manager.checkpoints)
  /\ Len(checkpoint_manager.checkpoints[i].stroke_history) > 0
  /\ checkpoint_manager.checkpoints[i].stroke_history[1].kind = "dict"
  /\ checkpoint_manager' =
       [checkpoint_manager EXCEPT
          !.checkpoints[i].stroke_history[1].kind = "malformed"]
  /\ call' = [Call("damage_stroke_history") EXCEPT !.arg_id = i]
  /\ DamageOnly

\* WorkflowExecutor.rollback_to_checkpoint(checkpoint_id) when a snapshot
\* may fail to deserialize: the exception of restore_checkpoint leaves the
\* method before any assignment, the exception of
\* get_stroke_history_at_checkpoint leaves it after self.canvas was assigned
rollback_to_checkpoint_stored(checkpoint_id) ==
  LET i     == FindCheckpoint(checkpoint_manager, checkpoint_id)
      cp    == checkpoint_manager.checkpoints[i]
      c     == [Call("rollback_to_checkpoint") EXCEPT !.arg_id = checkpoint_id]
      fresh == Canvas_from_dict_allocates(cp.canvas_state)
  IN IF i = 0 THEN rollback_to_checkpoint(checkpoint_id)
     ELSE IF Canvas_from_dict_raises(cp.canvas_state)
       THEN /\ checkpoint_manager' =
                 CM_rollback_to_checkpoint(checkpoint_manager, checkpoint_id)
            /\ call' = [c EXCEPT !.raised = TRUE]
            /\ DamageOnly
     ELSE IF get_stroke_history_raises(cp)
       THEN /\ checkpoint_manager' =
                 CM_rollback_to_checkpoint(checkpoint_manager, checkpoint_id)
            /\ fresh => alloc.layer_ids < MaxLayerIds
            /\ canvas' = Canvas_from_dict(cp.canvas_state, alloc.layer_ids + 1)
            /\ alloc' = [alloc EXCEPT !.layer_ids = IF fresh THEN @ + 1 ELSE @]
            /\ dict_heap' = IF fresh
                              THEN [dict_heap EXCEPT ![alloc.layer_ids + 1] = 0]
                              ELSE dict_heap
            /\ call' = [c EXCEPT !.raised = TRUE]
            /\ UNCHANGED << workflow_state, stroke_history, decision_logger,
                            stroke_meta, now, restored, hist >>
     ELSE rollback_to_checkpoint(checkpoint_id)

NextDamage ==
  \/ BudgetDamage /\ \E k \in 1..MaxStrokes : execute_stroke(k, None)
  \/ BudgetDamage /\ create_checkpoint
  \/ BudgetDamage /\ set_name("Renamed")
  \/ BudgetDamage /\ \E i \in 1..max_checkpoints : damage_canvas_state(i)
  \/ BudgetDamage /\ \E i \in 1..max_checkpoints : damage_stroke_history(i)
  \/ BudgetDamage /\ \E id \in KnownIds : rollback_to_checkpoint_stored(id)

SpecDamage == Init /\ [][NextDamage]_vars

\* the checkpoint that rollback_to_checkpoint(id) finds does not deserialize
FindsMalformed(id) ==
  LET i == FindCheckpoint(checkpoint_manager, id)
  IN /\ i # 0
     /\ \/ Canvas_from_dict_raises(checkpoint_manager.checkpoints[i].canvas_state)
        \/ get_stroke_history_raises(checkpoint_manager.checkpoints[i])

\* C32: a rollback that hits malformed snapshot data fails explicitly and
\* atomically: rollback_to_checkpoint surfaces an error and does not return
\* True, and the executor's canvas, stroke_history, current_phase,
\* phase_start_time and total_strokes are all as before the call.
C32_MalformedRollbackIsAtomic ==
  [][ (call'.op = "rollback_to_checkpoint" /\ FindsMalformed(call'.arg_id))
      => /\ call'.raised
         /\ ~call'.ok
         /\ canvas' = canvas
         /\ stroke_history' = stroke_history
         /\ workflow_state'.current_phase = workflow_state.current_phase
         /\ workflow_state'.phase_start_time = workflow_state.phase_start_time
         /\ workflow_state'.total_strokes = workflow_state.total_strokes ]_vars

\* C33: after every WorkflowExecutor operation (execute_stroke,
\* transition_to_phase, create_checkpoint, rollback_to_checkpoint,
\* rollback_to_phase, evaluate_and_decide_transition)
\* workflow_state.total_strokes = len(stroke_history).
C33_TotalIsHistoryLength ==
  workflow_state.total_strokes = Len(stroke_history)

\* two strokes executed, then a successful rollback to a checkpoint that
\* holds one of them
C33_Witness ==
  /\ call.op \in {"rollback_to_checkpoint", "rollback_to_phase"}
  /\ call.ok
  /\ hist.exec_calls = 2
  /\ Len(stroke_history) = 1
  /\ workflow_state.total_strokes = 1

\* C34: in every reachable executor state the per-phase counter is
\* consistent with the total: 0 <= phase_stroke_count <= total_strokes,
\* including after rollbacks.
C34_PhaseCountWithinTotal ==
  /\ 0 <= workflow_state.phase_stroke_count
  /\ workflow_state.phase_stroke_count <= workflow_state.total_strokes

\* C35: phase_history is a connected path: in every reachable executor
\* state the first record's from_phase is Sketch and every later record's
\* from_phase equals the to_phase of the record before it, also when
\* rollbacks happened between transitions.
C35_HistoryIsConnected ==
  \A i \in 1..Len(workflow_state.phase_history) :
    workflow_state.phase_history[i].from_phase =
      IF i = 1 THEN SKETCH ELSE workflow_state.phase_history[i - 1].to_phase

\* C36: every recommendation can be acted on: whenever
\* evaluate_and_decide_transition returns a phase p, for any metrics and
\* threshold, p differs from the current phase, is_valid_transition(
\* current_phase, p) holds, and transition_to_phase(p) called next is
\* accepted by the workflow state.
C36_RecommendationIsValid ==
  ( /\ call.op = "evaluate_and_decide_transition"
    /\ call.phase # None )
  => /\ call.phase # workflow_state.current_phase
     /\ is_valid_transition(workflow_state.current_phase, call.phase)
     /\ \A t \in Ticks(now) :
          LET r == WS_transition_to_phase(workflow_state, call.phase, t)
          IN r.ok /\ r.ws.current_phase = call.phase

\* a regression recommended from Stylization after three further passes
C36_Witness ==
  /\ call.op = "evaluate_and_decide_transition"
  /\ workflow_state.current_phase = STYLIZATION
  /\ workflow_state.iteration_in_phase = 3
  /\ call.phase = REFINEMENT
  /\ WS_transition_to_phase(workflow_state, REFINEMENT, now).ok

\* C37: with logging enabled, the open decision log always belongs to the
\* current phase: after every WorkflowExecutor operation, rollbacks
\* included, the open log's phase equals workflow_state.current_phase, so
\* every StrokeDecision written by execute_stroke sits in a log whose phase
\* equals the decision's own phase.
C37_OpenLogIsCurrentPhase ==
  decision_logger # NoLogger
  => /\ \A i \in OpenLogs(decision_logger) :
          decision_logger.phase_logs[i].phase = workflow_state.current_phase
     /\ \A i \in 1..Len(decision_logger.phase_logs) :
          \A j \in 1..Len(decision_logger.phase_logs[i].strokes) :
            decision_logger.phase_logs[i].strokes[j].phase =
              decision_logger.phase_logs[i].phase

\* C38: with logging enabled and all phase changes made through
\* WorkflowExecutor operations, the decision log tracks transitions one to
\* one: after every operation len(decision_logger.phase_logs) =
\* len(workflow_state.phase_history) + 1, and the i-th log after the first
\* has the phase of the i-th transition's to_phase.
C38_LogsTrackTransitions ==
  decision_logger # NoLogger
  => /\ Len(decision_logger.phase_logs) = Len(workflow_state.phase_history) + 1
     /\ decision_logger.phase_logs[1].phase = SKETCH
     /\ \A i \in 1..Len(workflow_state.phase_history) :
          decision_logger.phase_logs[i + 1].phase =
            workflow_state.phase_history[i].to_phase

\* a transition, a rollback to the initial checkpoint, and a transition
\* again: two records and three logs
C38_Witness ==
  /\ decision_logger # NoLogger
  /\ call.op = "transition_to_phase"
  /\ call.ok
  /\ Len(workflow_state.phase_history) = 2
  /\ Len(decision_logger.phase_logs) = 3
  /\ workflow_state.phase_history[1].to_phase = REFINEMENT
  /\ workflow_state.phase_history[2].from_phase = SKETCH
  /\ decision_logger.phase_logs[3].phase = REFINEMENT

\* ------------- two executors, with and without logging, given the same calls
\* Each executor is a record of its fields, its own clock (now), the ids its
\* create_checkpoint calls returned (issued), the number of execute_stroke
\* calls (executed) and the result of its last call (ret).  The methods are
\* the ones of the executor above, as functions of that record; the
\* metadata written into the caller's Stroke objects is not part of it.
MaxTwinCalls == 4

\* WorkflowExecutor(Canvas(800, 600), enable_logging=logging)
X_init(logging) ==
  [workflow_state |-> NewWorkflowState,
   stroke_history |-> << >>,
   checkpoint_manager |->
     CM_create_checkpoint(NewCheckpointManager,
                          CanvasCheckpoint(0, 0, SKETCH, NewCanvas, << >>, 1,
                                           CheckpointMetadata("initial", "", << >>))),
   decision_logger |-> IF logging THEN DL_start_phase(NewDecisionLogger, SKETCH)
                       ELSE NoLogger,
   canvas |-> NewCanvas,
   now |-> 0,
   issued |-> << 0 >>,
   executed |-> 0,
   ret |-> [ok |-> FALSE, phase |-> None]]

\* WorkflowExecutor.execute_stroke(stroke)
X_execute_stroke(x, k) ==
  LET ws       == x.workflow_state
      intent   == IF get_primary_intent(ws.current_phase) = None THEN GESTURE
                  ELSE get_primary_intent(ws.current_phase)
      decision == [stroke_id |-> x.executed + 1, intent |-> intent,
                   phase |-> ws.current_phase,
                   pre_evaluation |-> NoMetrics, post_evaluation |-> NoMetrics,
                   stroke_data |-> Stroke_to_dict(Stroke(k))]
  IN [x EXCEPT !.stroke_history = Append(@, Stroke(k)),
               !.workflow_state = record_stroke(@),
               !.decision_logger = IF @ = NoLogger THEN NoLogger
                                   ELSE DL_log_stroke(@, decision),
               !.executed = @ + 1,
               !.ret = [ok |-> TRUE, phase |-> None]]

\* WorkflowExecutor.create_checkpoint() at clock reading t
X_create_checkpoint(x, t, metadata) ==
  LET cp == CanvasCheckpoint(t, t, x.workflow_state.current_phase, x.canvas,
                             x.stroke_history, Len(x.issued) + 1, metadata)
  IN [x EXCEPT !.checkpoint_manager = CM_create_checkpoint(@, cp),
               !.issued = Append(@, cp.checkpoint_id),
               !.now = t,
               !.ret = [ok |-> TRUE, phase |-> None]]

\* WorkflowExecutor.transition_to_phase(new_phase, reason,
\* create_checkpoint=create_cp) at clock reading t
X_transition_to_phase(x, new_phase, reason, create_cp, t) ==
  LET r  == WS_transition_to_phase(x.workflow_state, new_phase, t)
      x1 == [x EXCEPT !.workflow_state = r.ws,
                      !.decision_logger =
                         IF @ = NoLogger THEN NoLogger
                         ELSE DL_start_phase(DL_close_phase(@, reason), new_phase),
                      !.now = t]
      x2 == IF create_cp
              THEN X_create_checkpoint(x1, t, CheckpointMetadata("phase_transition",
                                                                 reason, << >>))
              ELSE x1
  IN IF ~r.ok THEN [x EXCEPT !.ret = [ok |-> FALSE, phase |-> None]]
     ELSE [x2 EXCEPT !.ret = [ok |-> TRUE, phase |-> None]]

\* WorkflowExecutor.rollback_to_checkpoint(checkpoint_id)
X_rollback_to_checkpoint(x, checkpoint_id) ==
  LET i  == FindCheckpoint(x.checkpoint_manager, checkpoint_id)
      cp == x.checkpoint_manager.checkpoints[i]
      hs == get_stroke_history_at_checkpoint(cp)
  IN IF i = 0 THEN [x EXCEPT !.ret = [ok |-> FALSE, phase |-> None]]
     ELSE [x EXCEPT
             !.checkpoint_manager = CM_rollback_to_checkpoint(@, checkpoint_id),
             !.canvas = Canvas_from_dict(cp.canvas_state, MaxLayerIds),
             !.stroke_history = hs,
             !.workflow_state = [@ EXCEPT !.current_phase = cp.phase,
                                          !.phase_start_time = cp.timestamp,
                                          !.total_strokes = Len(hs)],
             !.ret = [ok |-> TRUE, phase |-> None]]

\* WorkflowExecutor.rollback_to_phase(phase)
X_rollback_to_phase(x, phase) ==
  LET last == LastOfPhase(x.checkpoint_manager, phase)
  IN IF last = 0 THEN [x EXCEPT !.ret = [ok |-> FALSE, phase |-> None]]
     ELSE X_rollback_to_checkpoint(
            x, x.checkpoint_manager.checkpoints[last].checkpoint_id)

\* WorkflowExecutor.evaluate_and_decide_transition(metrics, quality_threshold)
X_evaluate_and_decide_transition(x, metrics, quality_threshold) ==
  [x EXCEPT !.decision_logger = IF @ = NoLogger THEN NoLogger
                                ELSE DL_log_evaluation(@, metrics),
            !.ret = [ok |-> FALSE,
                     phase |-> Decide(x.workflow_state, metrics, quality_threshold)]]

\* the id the j-th create_checkpoint of the executor returned, the
\* constructor's being the first
IssuedId(x, j) == IF j \in 1..Len(x.issued) THEN x.issued[j] ELSE UnknownId

\* one executor with logging and one without; each reads its own clock
InitTwin ==
  /\ twin = << X_init(TRUE), X_init(FALSE) >>
  /\ workflow_state = NewWorkflowState
  /\ stroke_history = << >>
  /\ canvas = NewCanvas
  /\ checkpoint_manager = NewCheckpointManager
  /\ decision_logger = NoLogger
  /\ stroke_meta = [k \in 1..MaxStrokes |-> NoMeta]
  /\ dict_heap = [a \in 0..MaxLayerIds |-> 0]
  /\ now = 0
  /\ alloc = [strokes |-> 0, layer_ids |-> 1]
  /\ call = [op |-> "__init__", arg_phase |-> None, arg_id |-> 0,
             arg_metrics |-> << >>,
             arg_reason |-> "", arg_create |-> FALSE, arg_intent |-> None,
             ok |-> FALSE, ret |-> 0, phase |-> None, raised |-> FALSE, n |-> 0]
  /\ restored = NewCanvas
  /\ hist = [issued |-> << >>, exec_calls |-> 0, rollback_adj |-> 0,
             since_transition |-> 0, overlapped |-> FALSE]
  /\ pc = [t \in Threads |-> IdleThread]

TwinOnly ==
  UNCHANGED << workflow_state, stroke_history, checkpoint_manager,
               decision_logger, canvas, stroke_meta, dict_heap, now, alloc,
               restored, hist, pc >>

TwinExecute(k) ==
  /\ \A e \in 1..2 : twin[e].executed < MaxStrokes
  /\ twin' = [e \in 1..2 |-> X_execute_stroke(twin[e], k)]
  /\ call' = [Call("execute_stroke") EXCEPT !.arg_id = k]
  /\ TwinOnly

TwinCreate ==
  \E ta \in Ticks(twin[1].now) : \E tb \in Ticks(twin[2].now) :
    /\ \A e \in 1..2 : Len(twin[e].issued) < MaxCreated
    /\ twin' = << X_create_checkpoint(twin[1], ta, NoCheckpointMetadata),
                  X_create_checkpoint(twin[2], tb, NoCheckpointMetadata) >>
    /\ call' = Call("create_checkpoint")
    /\ TwinOnly

TwinTransition(new_phase, reason, create_cp) ==
  \E ta \in Ticks(twin[1].now) : \E tb \in Ticks(twin[2].now) :
    /\ \A e \in 1..2 :
         /\ Len(twin[e].workflow_state.phase_history) < MaxTransitions
         /\ Len(twin[e].issued) < MaxCreated
    /\ twin' = << X_transition_to_phase(twin[1], new_phase, reason, create_cp, ta),
                  X_transition_to_phase(twin[2], new_phase, reason, create_cp, tb) >>
    /\ call' = [Call("transition_to_phase") EXCEPT
                  !.arg_phase = new_phase, !.arg_reason = reason,
                  !.arg_create = create_cp]
    /\ TwinOnly

\* each executor is given the id its own j-th create_checkpoint returned
TwinRollback(j) ==
  /\ twin' = [e \in 1..2 |->
               X_rollback_to_checkpoint(twin[e], IssuedId(twin[e], j))]
  /\ call' = [Call("rollback_to_checkpoint") EXCEPT !.arg_id = j]
  /\ TwinOnly

TwinRollbackToPhase(phase) ==
  /\ twin' = [e \in 1..2 |-> X_rollback_to_phase(twin[e], phase)]
  /\ call' = [Call("rollback_to_phase") EXCEPT !.arg_phase = phase]
  /\ TwinOnly

TwinEvaluate(metrics) ==
  /\ Evaluations(twin[1].decision_logger) < MaxEvals
  /\ twin' = [e \in 1..2 |->
               X_evaluate_and_decide_transition(twin[e], metrics,
                                                default_quality_threshold)]
  /\ call' = [Call("evaluate_and_decide_transition") EXCEPT !.arg_metrics = metrics]
  /\ TwinOnly

BudgetTwin == call.n < MaxTwinCalls

NextTwin ==
  \/ BudgetTwin /\ \E k \in 1..MaxStrokes : TwinExecute(k)
  \/ BudgetTwin /\ TwinCreate
  \/ BudgetTwin /\ \E p \in DrawingPhase : \E r \in Reasons : \E b \in BOOLEAN :
                     TwinTransition(p, r, b)
  \/ BudgetTwin /\ \E j \in 1..MaxCreated : TwinRollback(j)
  \/ BudgetTwin /\ \E p \in DrawingPhase : TwinRollbackToPhase(p)
  \/ BudgetTwin /\ \E m \in Metrics : TwinEvaluate(m)

SpecTwin == InitTwin /\ [][NextTwin]_vars

\* what the claim compares: the result of the last call, the phase, the
\* history of transitions, the counters, the length of the stroke history
\* and the phases and stroke counts of the stored checkpoints
Observed(x) ==
  [ret |-> x.ret,
   current_phase |-> x.workflow_state.current_phase,
   phase_history |-> x.workflow_state.phase_history,
   iteration_in_phase |-> x.workflow_state.iteration_in_phase,
   total_strokes |-> x.workflow_state.total_strokes,
   phase_stroke_count |-> x.workflow_state.phase_stroke_count,
   strokes |-> Len(x.stroke_history),
   checkpoints |->
     [i \in 1..Len(x.checkpoint_manager.checkpoints) |->
        [phase   |-> x.checkpoint_manager.checkpoints[i].phase,
         strokes |-> Len(x.checkpoint_manager.checkpoints[i].stroke_history)]]]

\* C39: decision logging is observationally irrelevant to the workflow:
\* two executors, one built with enable_logging=True and one with
\* enable_logging=False, driven by the same sequence of operations, return
\* the same results from every call and agree after every step on
\* current_phase, phase_history, iteration_in_phase, both stroke counters,
\* the length of stroke_history and the phases and stroke counts of the
\* stored checkpoints.
C39_LoggingIsIrrelevant ==
  Observed(twin[1]) = Observed(twin[2])

\* -------------------------------------------------- a caller changing phases

MaxPhaseCalls == 5

\* WorkflowExecutor.is_complete
is_complete == is_phase_complete(workflow_state)

BudgetPhases == call.n < MaxPhaseCalls /\ UNCHANGED << pc, twin >>

\* the executor driven by a caller that only asks for phases, in runs long
\* enough to complete the workflow and reopen it
NextPhases ==
  BudgetPhases /\ \E p \in DrawingPhase : \E r \in Reasons : \E b \in BOOLEAN :
                    transition_to_phase_within(MaxPhaseCalls, p, r, NoMetrics, b)

SpecPhases == Init /\ [][NextPhases]_vars

\* some sequence of at most n accepted transition_to_phase calls, each to
\* another phase than the one it starts in, leads the workflow state ws to
\* Complete
RECURSIVE CanComplete(_, _)
CanComplete(ws, n) ==
  \/ is_phase_complete(ws)
  \/ /\ n > 0
     /\ \E p \in DrawingPhase \ {ws.current_phase} :
          LET r == WS_transition_to_phase(ws, p, 0)
          IN r.ok /\ CanComplete(r.ws, n - 1)

\* C40: Complete is reachable but not absorbing: from every reachable
\* executor state some finite sequence of accepted transition_to_phase calls
\* makes is_complete() True; from Complete, transition_to_phase(Rendering)
\* is accepted and makes is_complete() False again, and every other target
\* than Complete and Rendering is rejected and leaves the workflow Complete.
C40_CompleteReachableNotAbsorbing ==
  [][ /\ CanComplete(workflow_state, Cardinality(DrawingPhase) - 1)
      /\ CanComplete(workflow_state', Cardinality(DrawingPhase) - 1)
      /\ ( is_complete /\ call'.op = "transition_to_phase" )
         => /\ call'.arg_phase = RENDERING
                 => /\ call'.ok
                    /\ ~is_phase_complete(workflow_state')
            /\ call'.arg_phase \notin {RENDERING, COMPLETE}
                 => /\ ~call'.ok
                    /\ is_phase_complete(workflow_state') ]_vars

\* the workflow was completed and then reopened for rendering
C40_Witness ==
  /\ call.op = "transition_to_phase"
  /\ call.ok
  /\ call.arg_phase = RENDERING
  /\ ~is_complete
  /\ Len(workflow_state.phase_history) > 0
  /\ workflow_state.phase_history[Len(workflow_state.phase_history)].from_phase
       = COMPLETE

====
